---- MODULE Spec2Model ----
(***************************************************************************)
(* Model of the volunteer REST API (src/api.py) over its PostgreSQL table. *)
(*                                                                         *)
(* The store is the committed content of the volunteers table.  Every      *)
(* handler opens its own connection; a handler that issues one statement   *)
(* is one step, a handler that issues a SELECT and later a write           *)
(* (update_volunteer, delete_volunteer) is two steps, between which other  *)
(* requests (other workers on the same database) may commit.  The write    *)
(* and the commit that directly follows it are one step: under READ        *)
(* COMMITTED nobody can observe the state between them.                    *)
(*                                                                         *)
(* Strings are sequences of one-character strings.  A nullable value is    *)
(* None (<<>>) or Some(v) (<<v>>).                                         *)
(***************************************************************************)
EXTENDS Integers, Sequences, FiniteSets, TLC

VARIABLES store, nextId, clock, pc, cur, txStart, found, resp, created, deleted

\* the request in progress of SpecLifecycle: what has happened to it so far,
\* and the kind of message its response carries
VARIABLES log, detail

\* the calendar manager of SpecCalendar: the environment variables, the
\* credentials file and the token file, the manager object, and the
\* manager operation in progress
VARIABLES environ, files, manager, call

\* what the calendar manager's steps leave alone
apiVars == <<store, nextId, clock, pc, cur, txStart, found, resp, created, deleted>>
lcVars == <<log, detail>>

\* what the REST handlers leave alone
calVars == <<environ, files, manager, call>>

\* the calendar function tools of SpecTools: the event kept by Google
\* Calendar with the events inserted so far, and the tool call in progress
\* of every agent session
VARIABLES calendar, tool

\* the agent entrypoint of SpecAgent
VARIABLES job

\* the migration script of SpecMigration: the SQLite file, the PostgreSQL
\* volunteers table and the run of main; and the statement a REST handler
\* sends to the table the script created
VARIABLES sqlite, pg, mig, stmt

\* what the REST handlers and the calendar manager leave alone
extVars == <<calendar, tool, job, sqlite, pg, mig, stmt>>

vars == <<apiVars, lcVars, calVars, extVars>>

(* ---------------------------- bounds ----------------------------------- *)

\* ids the sequence may hand out in one run
MaxId == 2
\* transaction timestamps available in one run
MaxClock == 3

Procs == {"w1", "w2"}
\* ids a request may name: an id names no row before the sequence hands it
\* out and after its row is deleted
ReqIds == 1..MaxId

(* ---------------------------- values ----------------------------------- *)

None == <<>>
Some(v) == <<v>>

Min(a, b) == IF a < b THEN a ELSE b

\* limit: Optional[int] = 100 in get_volunteers
DefaultLimit == 100

BodyFields == {"name", "age", "location", "phone", "email", "skills",
               "available", "years_experience", "languages", "transportation",
               "background_check", "emergency_contact", "notes"}

\* columns that VolunteerCreate leaves optional without a default value
NullableFields == {"phone", "email", "languages", "transportation",
                   "emergency_contact", "notes"}

NoVals == [f \in {} |-> 0]

\* a request body: the keys that carry a value, and the keys sent as null
Body(vals, nulls) == [vals |-> vals, nulls |-> nulls]

CreateBodies ==
  { Body([name |-> <<"a">>, age |-> 30, location |-> <<"A", "b">>,
          skills |-> <<"a", "b">>], {}),
    Body([name |-> <<"b">>, age |-> 18, location |-> <<"b">>,
          skills |-> <<"b", "_">>, available |-> FALSE,
          languages |-> <<"A">>, phone |-> <<"1">>], {"notes"}) }

UpdateBodies ==
  { Body(NoVals, {}),
    Body(NoVals, {"name"}),
    Body([available |-> FALSE], {}),
    Body([skills |-> <<"b">>], {"phone"}),
    Body([age |-> 31, languages |-> <<"b">>], {}) }

Query(skill, location, available, language, limit) ==
  [skill |-> skill, location |-> location, available |-> available,
   language |-> language, limit |-> limit]

Queries ==
  { Query(None, None, None, None, None),
    Query(None, None, None, None, Some(1)),
    Query(None, None, None, None, Some(0)),
    Query(None, None, None, None, Some(-1)),
    Query(Some(<<"A">>), None, None, None, None),
    Query(Some(<<"_">>), None, None, None, None),
    Query(Some(<<>>), Some(<<"B">>), None, None, None),
    Query(None, None, Some(TRUE), None, None),
    Query(None, None, Some(FALSE), None, Some(1)),
    Query(Some(<<"b">>), None, Some(FALSE), Some(<<"a">>), None) }

(* ---------------------------- requests --------------------------------- *)

NoReq == [op |-> "none"]

NoResp == [req |-> NoReq, status |-> 0, volunteer |-> None,
           volunteers |-> {}, count |-> 0]

Response(req, st, v, vs, n) ==
  [req |-> req, status |-> st, volunteer |-> v, volunteers |-> vs, count |-> n]

\* HTTPException(status_code=..., detail=...)
HTTPException(req, st) == Response(req, st, None, {}, 0)

NotFoundAs500(req) == HTTPException(req, 500)

\* raise HTTPException(status_code=404, ...), re-raised by "except HTTPException"
NotFound(req) == HTTPException(req, 404)

(* ---------------------------- SQL -------------------------------------- *)

\* case folding of ILIKE on the characters of the model's alphabet
Lower(c) == CASE c = "A" -> "a" [] c = "B" -> "b" [] OTHER -> c

\* s ILIKE p: % matches any run of characters, _ any one character,
\* a backslash makes the next pattern character literal
RECURSIVE ILike(_, _)
ILike(s, p) ==
  IF p = <<>> THEN s = <<>>
  ELSE IF Head(p) = "%"
    THEN ILike(s, Tail(p)) \/ (s # <<>> /\ ILike(Tail(s), p))
  ELSE IF Head(p) = "_"
    THEN s # <<>> /\ ILike(Tail(s), Tail(p))
  ELSE IF Head(p) = "\\" /\ Len(p) >= 2
    THEN s # <<>> /\ Lower(Head(s)) = Lower(p[2])
         /\ ILike(Tail(s), Tail(Tail(p)))
  ELSE s # <<>> /\ Lower(Head(s)) = Lower(Head(p)) /\ ILike(Tail(s), Tail(p))

\* f"%{x}%"
Wrap(x) == <<"%">> \o x \o <<"%">>

\* "if skill:" - a parameter that is None or the empty string adds no predicate
Truthy(x) == x # None /\ x[1] # <<>>

AvailableSuppliedTruthy(q) == q.available = Some(TRUE)

\* "if available is not None:"
AvailableSupplied(q) == q.available # None

\* the WHERE clause get_volunteers builds; a NULL column matches no pattern
Matches(r, q) ==
  /\ Truthy(q.skill) => ILike(r.skills, Wrap(q.skill[1]))
  /\ Truthy(q.location) => ILike(r.location, Wrap(q.location[1]))
  /\ AvailableSupplied(q) => r.available = q.available[1]
  /\ Truthy(q.language) =>
        (r.languages # None /\ ILike(r.languages[1], Wrap(q.language[1])))

EffLimit(q) == IF q.limit = None THEN DefaultLimit ELSE q.limit[1]

SelectAll(st) == {st[i] : i \in DOMAIN st}

LimitRowsIgnored(rows, limit) == {rows}

\* LIMIT n without ORDER BY: any n of the rows, all of them when there are fewer
LimitRows(rows, limit) ==
  {S \in SUBSET rows : Cardinality(S) = Min(Cardinality(rows), limit)}

Exists(st, id) == id \in DOMAIN st

\* the value a body gives a column, wrapped when the column is nullable
Val(body, f) ==
  IF f \in NullableFields THEN Some(body.vals[f]) ELSE body.vals[f]

Given(body, f) == f \in DOMAIN body.vals

InsertRowAvailableDropped(body, id, now) ==
  [id |-> id, created_at |-> now, updated_at |-> now,
   name |-> body.vals.name, age |-> body.vals.age,
   location |-> body.vals.location, skills |-> body.vals.skills,
   available |-> TRUE,
   years_experience |->
     IF Given(body, "years_experience") THEN body.vals.years_experience ELSE 0,
   background_check |->
     IF Given(body, "background_check") THEN body.vals.background_check ELSE FALSE,
   phone |-> IF Given(body, "phone") THEN Val(body, "phone") ELSE None,
   email |-> IF Given(body, "email") THEN Val(body, "email") ELSE None,
   languages |-> IF Given(body, "languages") THEN Val(body, "languages") ELSE None,
   transportation |->
     IF Given(body, "transportation") THEN Val(body, "transportation") ELSE None,
   emergency_contact |->
     IF Given(body, "emergency_contact") THEN Val(body, "emergency_contact") ELSE None,
   notes |-> IF Given(body, "notes") THEN Val(body, "notes") ELSE None]

\* INSERT INTO volunteers (...) VALUES (..., NOW(), NOW()) RETURNING *
\* with the defaults of VolunteerCreate for the fields the body leaves out
InsertRow(body, id, now) ==
  [id |-> id, created_at |-> now, updated_at |-> now,
   name |-> body.vals.name, age |-> body.vals.age,
   location |-> body.vals.location, skills |-> body.vals.skills,
   available |-> IF Given(body, "available") THEN body.vals.available ELSE TRUE,
   years_experience |->
     IF Given(body, "years_experience") THEN body.vals.years_experience ELSE 0,
   background_check |->
     IF Given(body, "background_check") THEN body.vals.background_check ELSE FALSE,
   phone |-> IF Given(body, "phone") THEN Val(body, "phone") ELSE None,
   email |-> IF Given(body, "email") THEN Val(body, "email") ELSE None,
   languages |-> IF Given(body, "languages") THEN Val(body, "languages") ELSE None,
   transportation |->
     IF Given(body, "transportation") THEN Val(body, "transportation") ELSE None,
   emergency_contact |->
     IF Given(body, "emergency_contact") THEN Val(body, "emergency_contact") ELSE None,
   notes |-> IF Given(body, "notes") THEN Val(body, "notes") ELSE None]

\* the keys of volunteer.model_dump(exclude_unset=True)
Supplied(body) == DOMAIN body.vals \cup body.nulls

\* update_fields: the supplied keys whose value is not None
UpdateFields(body) == {f \in Supplied(body) : f \notin body.nulls}

NoFieldsToUpdateNever(body) == FALSE

NoFieldsToUpdateWhenNoneSupplied(body) == Supplied(body) = {}

\* "if not update_fields:"
NoFieldsToUpdate(body) == UpdateFields(body) = {}

ApplyUpdateStampOnly(row, body, now) == [row EXCEPT !.updated_at = now]

ApplyUpdateStampsCreatedAt(row, body, now) ==
  [f \in DOMAIN row |->
     IF f \in UpdateFields(body) THEN Val(body, f)
     ELSE IF f \in {"updated_at", "created_at"} THEN now
     ELSE row[f]]

ApplyUpdateAllFields(row, body, now) ==
  [f \in DOMAIN row |->
     IF f \in UpdateFields(body) THEN Val(body, f)
     ELSE IF f = "updated_at" THEN now
     ELSE IF f \in NullableFields THEN None
     ELSE row[f]]

\* UPDATE volunteers SET <update_fields>, updated_at = NOW() WHERE id = ...
ApplyUpdate(row, body, now) ==
  [f \in DOMAIN row |->
     IF f \in UpdateFields(body) THEN Val(body, f)
     ELSE IF f = "updated_at" THEN now
     ELSE row[f]]

ApplyAvailabilityAlwaysTrue(row, available, now) ==
  [row EXCEPT !.available = TRUE, !.updated_at = now]

\* UPDATE volunteers SET available = ..., updated_at = NOW() WHERE id = ...
ApplyAvailability(row, available, now) ==
  [row EXCEPT !.available = available, !.updated_at = now]

DeleteRowKept(st, id) == st

\* delete_volunteer returns the row its SELECT found, whatever number of rows
\* (n) its DELETE removed
Deleted(req, row, n) == Response(req, 200, row, {}, 0)

\* cur.rowcount of DELETE ... WHERE id = ...
Rowcount(st, id) == IF id \in DOMAIN st THEN 1 ELSE 0

\* DELETE FROM volunteers WHERE id = ...
DeleteRow(st, id) == [i \in DOMAIN st \ {id} |-> st[i]]

\* the row a statement adds under a fresh id
AddRow(st, row) == [i \in DOMAIN st \cup {row.id} |-> IF i = row.id THEN row ELSE st[i]]

\* history: forget what create returned for id once the row is written again
Forget(h, id) == [i \in DOMAIN h \ {id} |-> h[i]]

(* ---------------------------- state ------------------------------------ *)

\* credentials as the manager sees them: whether there are any, whether they
\* hold an access token, whether it has expired, whether they hold a refresh
\* token, and where they came from
Creds(token, expired, rt, src) ==
  [present |-> TRUE, token |-> token, expired |-> expired, rt |-> rt, src |-> src]

\* self.credentials = None, self.service = None
NoCreds == [present |-> FALSE, token |-> FALSE, expired |-> FALSE, rt |-> FALSE,
            src |-> "none"]

NoCall == [pc |-> "idle", op |-> "none", auth |-> "none", tried |-> <<>>,
           calls |-> 0, outcome |-> "none"]

\* GoogleCalendarManager.__init__
NewManager == [credentials |-> NoCreds, service |-> NoCreds]

\* the agent sessions (one job process each) that call the calendar tools:
\* the first calls any tool, the second is a concurrent update_event call
Sessions == {1, 2}

NoArgs == [title |-> None, start_datetime |-> None, end_datetime |-> None,
           description |-> None, location |-> None]

\* no tool call yet: the call's arguments, the event_data update_event holds
\* between its two requests, how often the call authenticated, called the
\* calendar API and wrote to the calendar, and what came of it
NoTool == [pc |-> "idle", name |-> "none", args |-> NoArgs, event_data |-> None,
           auths |-> 0, calls |-> 0, writes |-> 0,
           outcome |-> "none", result |-> "none"]

\* the event the sessions work on, as Google Calendar keeps it
Event0 == [summary |-> "Visit", description |-> "weekly", location |-> "Home",
           start |-> "2024-01-15T10:00:00", end |-> "2024-01-15T11:00:00"]

\* no agent process has called a calendar tool
ToolsUnused ==
  /\ calendar = [event |-> Event0, exists |-> TRUE, inserted |-> {}]
  /\ tool = [s \in Sessions |-> NoTool]

\* required_env_vars of the agent entrypoint
RequiredEnvVars ==
  {"AZURE_DEPLOYMENT", "AZURE_OPENAI_ENDPOINT", "AZURE_OPENAI_API_KEY",
   "OPENAI_API_VERSION", "DEEPGRAM_API_KEY", "AZURE_TTS_DEPLOYMENT",
   "AZURE_TTS_ENDPOINT", "AZURE_TTS_API_KEY", "AZURE_TTS_API_VERSION"}

\* no job yet: the process environment (a variable is unset, set to the
\* empty string or set to a value), what the entrypoint has done so far, in
\* order, how it ended and the error it raised
NoJob == [pc |-> "idle", env |-> [v \in RequiredEnvVars |-> "value"],
          done |-> <<>>, outcome |-> "none", error |-> "none"]

\* no agent job has been dispatched
AgentUnused == job = NoJob

\* main of the migration script has not run: where it stands, the count
\* migrate_data_from_sqlite returned, whether sample data was created, and
\* what main returned
NoMig == [pc |-> "idle", migrated_count |-> 0, sample |-> FALSE, result |-> "none"]

\* no statement sent by a REST handler
NoStmt == [handler |-> "none", columns |-> {}, outcome |-> "none"]

\* no volunteers.db in the working directory
NoSqlite == [exists |-> FALSE, table |-> FALSE, rows |-> <<>>]

\* no volunteers table in PostgreSQL: the columns of the table, the number
\* of committed rows, and the open transaction of the script's connection
NoTable == [columns |-> {}, rows |-> 0, pending |-> 0, aborted |-> FALSE]

\* the migration script has not run: no volunteers.db, no volunteers table
MigrationUnused ==
  /\ sqlite = NoSqlite
  /\ pg = NoTable
  /\ mig = NoMig
  /\ stmt = NoStmt

\* the REST API runs without any calendar configuration
CalendarUnused ==
  /\ environ = [client_id |-> FALSE, client_secret |-> FALSE,
                project_id |-> FALSE, refresh_token |-> FALSE]
  /\ files = [credentials_file |-> FALSE, token_file |-> NoCreds]
  /\ manager = NewManager
  /\ call = NoCall

\* the API starts on an empty volunteers table with no request in progress
ApiStart ==
  /\ store = [i \in {} |-> 0]
  /\ nextId = 1
  /\ clock = 0
  /\ pc = [p \in Procs |-> "idle"]
  /\ cur = [p \in Procs |-> NoReq]
  /\ txStart = [p \in Procs |-> 0]
  /\ found = [p \in Procs |-> None]
  /\ resp = NoResp
  /\ created = [i \in {} |-> 0]
  /\ deleted = {}
  /\ log = {}
  /\ detail = ""

Init == CalendarUnused /\ ApiStart /\ ToolsUnused /\ AgentUnused /\ MigrationUnused

(* ---------------------------- handlers --------------------------------- *)

\* A response is handed to the client before the next one is produced, and
\* with it goes the record of what happened to its request.
Deliver ==
  /\ resp # NoResp
  /\ resp' = NoResp
  /\ log' = {} /\ detail' = ""
  /\ UNCHANGED <<store, nextId, clock, pc, cur, txStart, found, created, deleted>>
  /\ UNCHANGED <<calVars, extVars>>

\* GET /api/volunteers
GetVolunteers(p, q) ==
  LET req == [op |-> "get_volunteers", query |-> q]
      rows == {r \in SelectAll(store) : Matches(r, q)}
  IN
  /\ pc[p] = "idle" /\ resp = NoResp
  /\ IF EffLimit(q) < 0
       THEN resp' = HTTPException(req, 500)
       ELSE \E S \in LimitRows(rows, EffLimit(q)) :
              resp' = Response(req, 200, None, S, Cardinality(S))
  /\ UNCHANGED <<store, nextId, clock, pc, cur, txStart, found, created, deleted>>
  /\ UNCHANGED <<lcVars, calVars, extVars>>

\* GET /api/volunteers/{volunteer_id}
GetVolunteer(p, id) ==
  LET req == [op |-> "get_volunteer", id |-> id] IN
  /\ pc[p] = "idle" /\ resp = NoResp
  /\ resp' = IF Exists(store, id)
               THEN Response(req, 200, Some(store[id]), {}, 0)
               ELSE NotFound(req)
  /\ UNCHANGED <<store, nextId, clock, pc, cur, txStart, found, created, deleted>>
  /\ UNCHANGED <<lcVars, calVars, extVars>>

\* POST /api/volunteers
CreateVolunteer(p, body) ==
  LET req == [op |-> "create_volunteer", body |-> body]
      row == InsertRow(body, nextId, clock + 1)
  IN
  /\ pc[p] = "idle" /\ resp = NoResp
  /\ nextId <= MaxId /\ clock < MaxClock
  /\ store' = AddRow(store, row)
  /\ nextId' = nextId + 1
  /\ clock' = clock + 1
  /\ resp' = Response(req, 201, Some(row), {}, 0)
  /\ created' = AddRow(Forget(created, row.id), [id |-> row.id, row |-> row, body |-> body])
  /\ UNCHANGED <<pc, cur, txStart, found, deleted>>
  /\ UNCHANGED <<lcVars, calVars, extVars>>

\* PUT /api/volunteers/{volunteer_id}: the existence check and the patch check
UpdateVolunteerCheck(p, id, body) ==
  LET req == [op |-> "update_volunteer", id |-> id, body |-> body] IN
  /\ pc[p] = "idle"
  /\ \/ /\ ~Exists(store, id)
        /\ resp = NoResp
        /\ resp' = NotFound(req)
        /\ UNCHANGED <<clock, pc, cur, txStart>>
     \/ /\ Exists(store, id) /\ NoFieldsToUpdate(body)
        /\ resp = NoResp
        /\ resp' = HTTPException(req, 400)
        /\ UNCHANGED <<clock, pc, cur, txStart>>
     \/ /\ Exists(store, id) /\ ~NoFieldsToUpdate(body)
        /\ clock < MaxClock
        /\ clock' = clock + 1
        /\ txStart' = [txStart EXCEPT ![p] = clock + 1]
        /\ pc' = [pc EXCEPT ![p] = "put_update"]
        /\ cur' = [cur EXCEPT ![p] = req]
        /\ UNCHANGED resp
  /\ UNCHANGED <<store, nextId, found, created, deleted>>
  /\ UNCHANGED <<lcVars, calVars, extVars>>

\* PUT /api/volunteers/{volunteer_id}: the UPDATE ... RETURNING * and the commit
UpdateVolunteerExec(p) ==
  LET id == cur[p].id IN
  /\ pc[p] = "put_update" /\ resp = NoResp
  /\ IF Exists(store, id)
       THEN /\ store' = [store EXCEPT ![id] = ApplyUpdate(@, cur[p].body, txStart[p])]
            /\ resp' = Response(cur[p], 200, Some(store'[id]), {}, 0)
       ELSE /\ store' = store
            /\ resp' = Response(cur[p], 200, None, {}, 0)
  /\ created' = Forget(created, id)
  /\ pc' = [pc EXCEPT ![p] = "idle"]
  /\ cur' = [cur EXCEPT ![p] = NoReq]
  /\ txStart' = [txStart EXCEPT ![p] = 0]
  /\ UNCHANGED <<nextId, clock, found, deleted>>
  /\ UNCHANGED <<lcVars, calVars, extVars>>

\* DELETE /api/volunteers/{volunteer_id}: the SELECT * before the delete
DeleteVolunteerSelect(p, id) ==
  LET req == [op |-> "delete_volunteer", id |-> id] IN
  /\ pc[p] = "idle"
  /\ \/ /\ ~Exists(store, id)
        /\ resp = NoResp
        /\ resp' = NotFound(req)
        /\ UNCHANGED <<pc, cur, found>>
     \/ /\ Exists(store, id)
        /\ found' = [found EXCEPT ![p] = Some(store[id])]
        /\ pc' = [pc EXCEPT ![p] = "delete_exec"]
        /\ cur' = [cur EXCEPT ![p] = req]
        /\ UNCHANGED resp
  /\ UNCHANGED <<store, nextId, clock, txStart, created, deleted>>
  /\ UNCHANGED <<lcVars, calVars, extVars>>

\* DELETE /api/volunteers/{volunteer_id}: the DELETE and the commit
DeleteVolunteerExec(p) ==
  LET id == cur[p].id IN
  /\ pc[p] = "delete_exec" /\ resp = NoResp
  /\ store' = DeleteRow(store, id)
  /\ resp' = Deleted(cur[p], found[p], Rowcount(store, id))
  /\ created' = Forget(created, id)
  /\ deleted' = deleted \cup {id}
  /\ pc' = [pc EXCEPT ![p] = "idle"]
  /\ cur' = [cur EXCEPT ![p] = NoReq]
  /\ found' = [found EXCEPT ![p] = None]
  /\ UNCHANGED <<nextId, clock, txStart>>
  /\ UNCHANGED <<lcVars, calVars, extVars>>

\* PATCH /api/volunteers/{volunteer_id}/availability
UpdateVolunteerAvailability(p, id, available) ==
  LET req == [op |-> "update_volunteer_availability", id |-> id,
              available |-> available] IN
  /\ pc[p] = "idle" /\ resp = NoResp
  /\ \/ /\ Exists(store, id)
        /\ clock < MaxClock
        /\ clock' = clock + 1
        /\ store' = [store EXCEPT ![id] = ApplyAvailability(@, available, clock + 1)]
        /\ resp' = Response(req, 200, Some(store'[id]), {}, 0)
        /\ created' = Forget(created, id)
     \/ /\ ~Exists(store, id)
        /\ resp' = NotFound(req)
        /\ UNCHANGED <<store, clock, created>>
  /\ UNCHANGED <<nextId, pc, cur, txStart, found, deleted>>
  /\ UNCHANGED <<lcVars, calVars, extVars>>

Next ==
  \/ Deliver
  \/ \E p \in Procs, q \in Queries : GetVolunteers(p, q)
  \/ \E p \in Procs, id \in ReqIds : GetVolunteer(p, id)
  \/ \E p \in Procs, body \in CreateBodies : CreateVolunteer(p, body)
  \/ \E p \in Procs, id \in ReqIds, body \in UpdateBodies :
        UpdateVolunteerCheck(p, id, body)
  \/ \E p \in Procs : UpdateVolunteerExec(p)
  \/ \E p \in Procs, id \in ReqIds : DeleteVolunteerSelect(p, id)
  \/ \E p \in Procs : DeleteVolunteerExec(p)
  \/ \E p \in Procs, id \in ReqIds, available \in BOOLEAN :
        UpdateVolunteerAvailability(p, id, available)

Spec == Init /\ [][Next]_vars

(* ---------------------------- one request, step by step ----------------- *)
(* SpecLifecycle follows one worker through a request: the framework picks  *)
(* the route and validates the input, the handler opens a connection, runs  *)
(* its statements and commits, and each of these may fail.                  *)

\* limit: int = 50 in search_by_skill, search_by_location and
\* get_available_volunteers
SearchDefaultLimit == 50

\* an HTTP request: a path is the sequence of its segments
Http(method, path, query, body) ==
  [method |-> method, path |-> path, query |-> query, body |-> body]

NoQuery == Query(None, None, None, None, None)

Lit(s) == [lit |-> TRUE, s |-> s]
Param(n) == [lit |-> FALSE, s |-> n]

RouteOf(method, pattern, handler) ==
  [method |-> method, pattern |-> pattern, handler |-> handler]

\* the routes in the order in which the decorators register them
Routes ==
  << RouteOf("GET", <<>>, "root"),
     RouteOf("GET", <<Lit("openapi-test")>>, "openapi_test"),
     RouteOf("GET", <<Lit("health")>>, "health_check"),
     RouteOf("GET", <<Lit("api"), Lit("volunteers")>>, "get_volunteers"),
     RouteOf("GET", <<Lit("api"), Lit("volunteers"), Param("volunteer_id")>>,
             "get_volunteer"),
     RouteOf("GET", <<Lit("api"), Lit("volunteers"), Lit("search"),
                      Lit("by-skill"), Param("skill")>>, "search_by_skill"),
     RouteOf("GET", <<Lit("api"), Lit("volunteers"), Lit("search"),
                      Lit("by-location"), Param("location")>>, "search_by_location"),
     RouteOf("GET", <<Lit("api"), Lit("volunteers"), Lit("available")>>,
             "get_available_volunteers"),
     RouteOf("POST", <<Lit("api"), Lit("volunteers")>>, "create_volunteer"),
     RouteOf("PUT", <<Lit("api"), Lit("volunteers"), Param("volunteer_id")>>,
             "update_volunteer"),
     RouteOf("DELETE", <<Lit("api"), Lit("volunteers"), Param("volunteer_id")>>,
             "delete_volunteer"),
     RouteOf("PATCH", <<Lit("api"), Lit("volunteers"), Param("volunteer_id"),
                        Lit("availability")>>, "update_volunteer_availability") >>

\* a path parameter matches any one segment, a literal only itself
PathMatches(pattern, path) ==
  /\ Len(pattern) = Len(path)
  /\ \A i \in 1..Len(pattern) : pattern[i].lit => pattern[i].s = path[i]

MinOf(S) == CHOOSE i \in S : \A j \in S : i <= j

\* the first route whose path and method match; failing that the first whose
\* path matches (it answers 405); 0 when no path matches (404)
Route(method, path) ==
  LET full == {i \in DOMAIN Routes :
                 PathMatches(Routes[i].pattern, path) /\ Routes[i].method = method}
      partial == {i \in DOMAIN Routes : PathMatches(Routes[i].pattern, path)}
  IN IF full # {} THEN [handler |-> Routes[MinOf(full)].handler, status |-> 0]
     ELSE IF partial # {} THEN [handler |-> "none", status |-> 405]
     ELSE [handler |-> "none", status |-> 404]

\* the decimal numerals the model's requests use
Numerals == ("1" :> 1) @@ ("2" :> 2) @@ ("3" :> 3)

\* volunteer_id: int - a segment that is no numeral fails validation
IsInt(seg) == seg \in DOMAIN Numerals
ParseInt(seg) == Numerals[seg]

\* skill: str, location: str - the characters of a segment
Spellings == ("a" :> <<"a">>) @@ ("b" :> <<"b">>) @@ ("z" :> <<"z">>)
             @@ ("ab" :> <<"a", "b">>)
Chars(seg) == Spellings[seg]

Transportation == {"car", "public_transport", "walking", "bicycle"}

FieldOkAgeUnchecked(f, v) ==
  CASE f \in {"name", "location"} -> Len(v) >= 1 /\ Len(v) <= 200
    [] f = "phone" -> Len(v) <= 20
    [] f \in {"email", "emergency_contact"} -> Len(v) <= 200
    [] f = "years_experience" -> v >= 0
    [] f = "transportation" -> v \in Transportation
    [] OTHER -> TRUE

\* the Field(...) constraints, the same in VolunteerCreate and VolunteerUpdate
FieldOk(f, v) ==
  CASE f \in {"name", "location"} -> Len(v) >= 1 /\ Len(v) <= 200
    [] f = "age" -> v >= 18 /\ v <= 100
    [] f = "phone" -> Len(v) <= 20
    [] f \in {"email", "emergency_contact"} -> Len(v) <= 200
    [] f = "years_experience" -> v >= 0
    [] f = "transportation" -> v \in Transportation
    [] OTHER -> TRUE

\* the fields VolunteerCreate declares with "..."
RequiredFields == {"name", "age", "location", "skills"}

\* VolunteerCreate accepts the body
ValidCreate(body) ==
  /\ RequiredFields \subseteq DOMAIN body.vals
  /\ body.nulls \subseteq NullableFields
  /\ \A f \in DOMAIN body.vals : FieldOk(f, body.vals[f])

\* VolunteerUpdate accepts the body: every field may be left out or null
ValidUpdate(body) == \A f \in DOMAIN body.vals : FieldOk(f, body.vals[f])

\* the handlers that take volunteer_id: int from the path
TakesId == {"get_volunteer", "update_volunteer", "delete_volunteer",
            "update_volunteer_availability"}

\* the request fails the validation of the handler's parameters (422)
Unprocessable(handler, http) ==
  \/ handler \in TakesId /\ ~IsInt(http.path[3])
  \/ handler = "update_volunteer_availability" /\ http.query.available = None
  \/ handler = "create_volunteer"
       /\ ~(http.body # None /\ ValidCreate(http.body[1]))
  \/ handler = "update_volunteer"
       /\ ~(http.body # None /\ ValidUpdate(http.body[1]))

\* the handlers that open no connection
Static == {"root", "openapi_test"}

\* the request as the handler's parameters carry it
Bind(handler, http) ==
  CASE handler = "get_volunteers" ->
         [op |-> handler, query |-> http.query, http |-> http]
    [] handler \in {"search_by_skill", "search_by_location"} ->
         [op |-> handler, text |-> Chars(http.path[5]),
          limit |-> http.query.limit, http |-> http]
    [] handler = "get_available_volunteers" ->
         [op |-> handler, limit |-> http.query.limit, http |-> http]
    [] handler \in {"get_volunteer", "delete_volunteer"} ->
         [op |-> handler, id |-> ParseInt(http.path[3]), http |-> http]
    [] handler = "create_volunteer" ->
         [op |-> handler, body |-> http.body[1], http |-> http]
    [] handler = "update_volunteer" ->
         [op |-> handler, id |-> ParseInt(http.path[3]),
          body |-> http.body[1], http |-> http]
    [] handler = "update_volunteer_availability" ->
         [op |-> handler, id |-> ParseInt(http.path[3]),
          available |-> http.query.available[1], http |-> http]
    [] OTHER -> [op |-> handler, http |-> http]

\* the rows the SELECT of a list handler matches
QueryRows(st, req) ==
  CASE req.op = "get_volunteers" -> {r \in SelectAll(st) : Matches(r, req.query)}
    [] req.op = "search_by_skill" ->
         {r \in SelectAll(st) : ILike(r.skills, Wrap(req.text))}
    [] req.op = "search_by_location" ->
         {r \in SelectAll(st) : ILike(r.location, Wrap(req.text))}
    [] req.op = "get_available_volunteers" ->
         {r \in SelectAll(st) : r.available = TRUE}

\* the value bound to LIMIT %s
QueryLimit(req) ==
  IF req.op = "get_volunteers" THEN EffLimit(req.query)
  ELSE IF req.limit = None THEN SearchDefaultLimit ELSE req.limit[1]

QueryResponseEmptyIs404(req, S) ==
  IF S = {} THEN NotFound(req) ELSE Response(req, 200, None, S, Cardinality(S))

\* {"volunteers": volunteers, "count": len(volunteers)}
QueryResponse(req, S) == Response(req, 200, None, S, Cardinality(S))

FailureAlways500(req) == HTTPException(req, 500)

\* what "except Exception" makes of a failure: health_check returns its
\* "unhealthy" body, every other handler raises HTTPException(500)
Failure(req) ==
  IF req.op = "health_check" THEN Response(req, 200, None, {}, 0)
  ELSE HTTPException(req, 500)

FailureDetail(req) == IF req.op = "health_check" THEN "unhealthy" ELSE "error"

CloseSkipped(l) == l

\* cur.close(); conn.close()
Close(l) == l \cup {"closed"}

\* the requests of the model
Requests ==
  {Http("GET", <<>>, NoQuery, None),
   Http("GET", <<"health">>, NoQuery, None),
   Http("POST", <<"health">>, NoQuery, None),
   Http("GET", <<"api", "nothing">>, NoQuery, None)}
  \cup {Http("GET", <<"api", "volunteers">>, q, None) :
          q \in {NoQuery, Query(None, None, None, None, Some(-1)),
                 Query(Some(<<"z">>), None, None, None, None),
                 Query(None, None, Some(FALSE), None, Some(1))}}
  \cup {Http("GET", <<"api", "volunteers", seg>>, NoQuery, None) :
          seg \in {"1", "2", "available", "ab"}}
  \cup {Http("GET", <<"api", "volunteers", "available">>,
             Query(None, None, None, None, Some(1)), None)}
  \cup {Http("GET", <<"api", "volunteers", "search", by, seg>>,
             Query(None, None, None, None, l), None) :
          by \in {"by-skill", "by-location"}, seg \in {"b", "z"},
          l \in {None, Some(-1)}}
  \cup {Http("POST", <<"api", "volunteers">>, NoQuery, b) :
          b \in {Some(c) : c \in CreateBodies} \cup
                {None,
                 Some(Body([age |-> 30, location |-> <<"b">>,
                            skills |-> <<"a">>], {})),
                 Some(Body([name |-> <<>>, age |-> 30, location |-> <<"b">>,
                            skills |-> <<"a">>], {})),
                 Some(Body([name |-> <<"a">>, age |-> 17, location |-> <<"b">>,
                            skills |-> <<"a">>], {})),
                 Some(Body([name |-> <<"a">>, age |-> 101, location |-> <<>>,
                            skills |-> <<"a">>], {})),
                 Some(Body([name |-> <<"a">>, age |-> 30, location |-> <<"b">>,
                            skills |-> <<"a">>, years_experience |-> -1], {})),
                 Some(Body([name |-> <<"a">>, age |-> 30, location |-> <<"b">>,
                            skills |-> <<"a">>, transportation |-> "boat"], {})),
                 Some(Body([name |-> <<"a">>, age |-> 30, location |-> <<"b">>],
                           {"skills"}))}}
  \cup {Http("PUT", <<"api", "volunteers", seg>>, NoQuery, b) :
          seg \in {"1", "2"},
          b \in {Some(u) : u \in UpdateBodies} \cup
                {Some(Body([transportation |-> "car"], {})),
                 Some(Body([age |-> 101], {})),
                 Some(Body([name |-> <<>>], {})),
                 Some(Body([location |-> <<>>, skills |-> <<"b">>], {})),
                 Some(Body([years_experience |-> -1], {"notes"})),
                 Some(Body([transportation |-> "boat"], {}))}}
  \cup {Http("DELETE", <<"api", "volunteers", seg>>, NoQuery, None) :
          seg \in {"1", "2", "ab"}}
  \cup {Http("PATCH", <<"api", "volunteers", seg, "availability">>,
             Query(None, None, a, None, None), None) :
          seg \in {"1", "2"}, a \in {None, Some(TRUE), Some(FALSE)}}

RequestValidationErrorAs400(req) == HTTPException(req, 400)

\* the framework's answer to parameters that fail validation
RequestValidationError(req) == HTTPException(req, 422)

\* the worker SpecLifecycle follows
W == "w1"

\* the request ends: its response, what happened to it, what the response says
Finish(r, l, d) ==
  /\ resp' = r
  /\ log' = l
  /\ detail' = d
  /\ pc' = [pc EXCEPT ![W] = "idle"]
  /\ cur' = [cur EXCEPT ![W] = NoReq]
  /\ found' = [found EXCEPT ![W] = None]
  /\ txStart' = [txStart EXCEPT ![W] = 0]

\* the handler moves on to its next step
Goto(step, l) ==
  /\ pc' = [pc EXCEPT ![W] = step]
  /\ log' = l
  /\ UNCHANGED <<resp, detail>>

\* the framework answers without calling a handler: no route for the path
\* (404), no route for the method (405), or parameters that fail validation (422)
Reject(http) ==
  LET rt == Route(http.method, http.path) IN
  /\ pc[W] = "idle" /\ resp = NoResp
  /\ \/ /\ rt.status # 0
        /\ Finish(HTTPException([op |-> "none", http |-> http], rt.status),
                  {"unrouted"}, "no_route")
     \/ /\ rt.status = 0
        /\ Unprocessable(rt.handler, http)
        /\ Finish(RequestValidationError([op |-> rt.handler, http |-> http]),
                  {"invalid"}, "validation")
  /\ UNCHANGED <<store, nextId, clock, created, deleted, calVars, extVars>>

\* root and openapi_test answer without a connection
Serve(http) ==
  LET rt == Route(http.method, http.path) IN
  /\ pc[W] = "idle" /\ resp = NoResp
  /\ rt.status = 0 /\ rt.handler \in Static
  /\ Finish(Response(Bind(rt.handler, http), 200, None, {}, 0), {}, "")
  /\ UNCHANGED <<store, nextId, clock, created, deleted, calVars, extVars>>

\* a handler that uses the database is called
Receive(http) ==
  LET rt == Route(http.method, http.path) IN
  /\ pc[W] = "idle" /\ resp = NoResp
  /\ rt.status = 0 /\ rt.handler \notin Static
  /\ ~Unprocessable(rt.handler, http)
  /\ rt.handler = "create_volunteer" => nextId <= MaxId
  /\ rt.handler \in {"create_volunteer", "update_volunteer",
                     "update_volunteer_availability"} => clock < MaxClock
  /\ cur' = [cur EXCEPT ![W] = Bind(rt.handler, http)]
  /\ Goto("connect", {})
  /\ UNCHANGED <<store, nextId, clock, txStart, found, created, deleted, calVars, extVars>>

\* conn = get_db_connection()
Connect ==
  /\ pc[W] = "connect"
  /\ Goto("execute", log \cup {"connected"})
  /\ UNCHANGED <<store, nextId, clock, cur, txStart, found, created, deleted, calVars, extVars>>

\* psycopg2.connect raises: get_db_connection raises HTTPException(500)
ConnectFails ==
  /\ pc[W] = "connect" /\ resp = NoResp
  /\ Finish(Failure(cur[W]), log \cup {"connect_failed"}, FailureDetail(cur[W]))
  /\ UNCHANGED <<store, nextId, clock, created, deleted, calVars, extVars>>

\* health_check: SELECT 1
ExecuteProbe ==
  /\ pc[W] = "execute" /\ resp = NoResp
  /\ cur[W].op = "health_check"
  /\ Finish(Response(cur[W], 200, None, {}, 0), Close(log \cup {"executed"}),
            "healthy")
  /\ UNCHANGED <<store, nextId, clock, created, deleted, calVars, extVars>>

\* get_volunteers, search_by_skill, search_by_location,
\* get_available_volunteers: SELECT ... LIMIT
ExecuteQuery ==
  /\ pc[W] = "execute" /\ resp = NoResp
  /\ cur[W].op \in {"get_volunteers", "search_by_skill", "search_by_location",
                    "get_available_volunteers"}
  /\ QueryLimit(cur[W]) >= 0
  /\ \E S \in LimitRows(QueryRows(store, cur[W]), QueryLimit(cur[W])) :
       Finish(QueryResponse(cur[W], S), Close(log \cup {"executed"}), "")
  /\ UNCHANGED <<store, nextId, clock, created, deleted, calVars, extVars>>

\* get_volunteer, update_volunteer, delete_volunteer: the SELECT by id
ExecuteSelect ==
  LET req == cur[W] IN
  /\ pc[W] = "execute" /\ resp = NoResp
  /\ req.op \in {"get_volunteer", "update_volunteer", "delete_volunteer"}
  /\ \/ /\ ~Exists(store, req.id)
        /\ Finish(NotFound(req), Close(log \cup {"executed", "not_found"}),
                  "not_found")
        /\ UNCHANGED clock
     \/ /\ Exists(store, req.id) /\ req.op = "get_volunteer"
        /\ Finish(Response(req, 200, Some(store[req.id]), {}, 0),
                  Close(log \cup {"executed"}), "")
        /\ UNCHANGED clock
     \/ /\ Exists(store, req.id) /\ req.op = "update_volunteer"
        /\ NoFieldsToUpdate(req.body)
        /\ Finish(HTTPException(req, 400), Close(log \cup {"executed", "no_fields"}),
                  "no_fields")
        /\ UNCHANGED clock
     \/ /\ Exists(store, req.id) /\ req.op = "update_volunteer"
        /\ ~NoFieldsToUpdate(req.body)
        /\ clock' = clock + 1
        /\ txStart' = [txStart EXCEPT ![W] = clock + 1]
        /\ Goto("write", log \cup {"executed"})
        /\ UNCHANGED <<cur, found>>
     \/ /\ Exists(store, req.id) /\ req.op = "delete_volunteer"
        /\ found' = [found EXCEPT ![W] = Some(store[req.id])]
        /\ Goto("write", log \cup {"executed"})
        /\ UNCHANGED <<clock, cur, txStart>>
  /\ UNCHANGED <<store, nextId, created, deleted, calVars, extVars>>

\* create_volunteer: INSERT ... RETURNING *
ExecuteInsert ==
  /\ pc[W] = "execute"
  /\ cur[W].op = "create_volunteer"
  /\ found' = [found EXCEPT ![W] = Some(InsertRow(cur[W].body, nextId, clock + 1))]
  /\ nextId' = nextId + 1
  /\ clock' = clock + 1
  /\ Goto("commit", log \cup {"executed"})
  /\ UNCHANGED <<store, cur, txStart, created, deleted, calVars, extVars>>

\* update_volunteer_availability: UPDATE ... RETURNING *
ExecutePatch ==
  LET req == cur[W] IN
  /\ pc[W] = "execute" /\ resp = NoResp
  /\ req.op = "update_volunteer_availability"
  /\ \/ /\ ~Exists(store, req.id)
        /\ Finish(NotFound(req), Close(log \cup {"executed", "not_found"}),
                  "not_found")
        /\ UNCHANGED clock
     \/ /\ Exists(store, req.id)
        /\ found' = [found EXCEPT ![W] =
                       Some(ApplyAvailability(store[req.id], req.available, clock + 1))]
        /\ clock' = clock + 1
        /\ Goto("commit", log \cup {"executed"})
        /\ UNCHANGED <<cur, txStart>>
  /\ UNCHANGED <<store, nextId, created, deleted, calVars, extVars>>

\* the first statement raises: a LIMIT below zero always does, and the
\* server may fail any statement
ExecuteFails ==
  /\ pc[W] = "execute" /\ resp = NoResp
  /\ Finish(Failure(cur[W]), log \cup {"statement_failed"}, FailureDetail(cur[W]))
  /\ UNCHANGED <<store, nextId, clock, created, deleted, calVars, extVars>>

\* update_volunteer: UPDATE ... RETURNING *; delete_volunteer: DELETE
Write ==
  LET req == cur[W] IN
  /\ pc[W] = "write"
  /\ found' = IF req.op = "update_volunteer"
                THEN [found EXCEPT ![W] =
                        Some(ApplyUpdate(store[req.id], req.body, txStart[W]))]
                ELSE found
  /\ Goto("commit", log \cup {"written"})
  /\ UNCHANGED <<store, nextId, clock, cur, txStart, created, deleted, calVars, extVars>>

\* the second statement raises
WriteFails ==
  /\ pc[W] = "write" /\ resp = NoResp
  /\ Finish(Failure(cur[W]), log \cup {"statement_failed"}, FailureDetail(cur[W]))
  /\ UNCHANGED <<store, nextId, clock, created, deleted, calVars, extVars>>

\* conn.commit(), then the connection is closed and the handler returns
Commit ==
  LET req == cur[W] IN
  /\ pc[W] = "commit" /\ resp = NoResp
  /\ store' = IF req.op = "create_volunteer" THEN AddRow(store, found[W][1])
              ELSE IF req.op = "delete_volunteer" THEN DeleteRow(store, req.id)
              ELSE [store EXCEPT ![req.id] = found[W][1]]
  /\ Finish(Response(req, IF req.op = "create_volunteer" THEN 201 ELSE 200,
                     found[W], {}, 0),
            Close(log \cup {"committed"}), "")
  /\ UNCHANGED <<nextId, clock, created, deleted, calVars, extVars>>

\* conn.commit() raises: nothing is stored
CommitFails ==
  /\ pc[W] = "commit" /\ resp = NoResp
  /\ Finish(Failure(cur[W]), log \cup {"commit_failed"}, FailureDetail(cur[W]))
  /\ UNCHANGED <<store, nextId, clock, created, deleted, calVars, extVars>>

NextLifecycle ==
  \/ Deliver
  \/ \E http \in Requests : Reject(http)
  \/ \E http \in Requests : Serve(http)
  \/ \E http \in Requests : Receive(http)
  \/ Connect
  \/ ConnectFails
  \/ ExecuteProbe
  \/ ExecuteQuery
  \/ ExecuteSelect
  \/ ExecuteInsert
  \/ ExecutePatch
  \/ ExecuteFails
  \/ Write
  \/ WriteFails
  \/ Commit
  \/ CommitFails

SpecLifecycle == Init /\ [][NextLifecycle]_vars

(* ---------------------------- calendar manager ------------------------- *)
(* SpecCalendar follows the operations of the one GoogleCalendarManager    *)
(* (src/google_calendar_tools.py) in an environment fixed at the start:    *)
(* which variables are set, whether gcp-oauth.keys.json exists, and what   *)
(* google_calendar_token.json holds.  authenticate has no await in it, so  *)
(* it is one step.                                                         *)

EnvNames == {"client_id", "client_secret", "project_id", "refresh_token"}

\* a token file that Credentials.from_authorized_user_file cannot read
Corrupt == [present |-> TRUE, token |-> FALSE, expired |-> FALSE, rt |-> FALSE,
            src |-> "corrupt"]

\* what google_calendar_token.json may hold at the start: nothing, valid
\* credentials, expired ones with and without a refresh token, credentials
\* without an access token, or something unreadable
TokenFiles ==
  {NoCreds, Corrupt,
   Creds(TRUE, FALSE, TRUE, "file"), Creds(TRUE, TRUE, TRUE, "file"),
   Creds(TRUE, TRUE, FALSE, "file"), Creds(FALSE, FALSE, TRUE, "file")}

\* Credentials.valid: an access token that has not expired
Valid(c) == c.present /\ c.token /\ ~c.expired

\* Credentials.refresh succeeded
Refreshed(c) == [c EXCEPT !.token = TRUE, !.expired = FALSE]

\* token.write(self.credentials.to_json())
Saved(c) == [c EXCEPT !.src = "file"]

AuthResult(result, fs, mgr, tried) ==
  [result |-> result, files |-> fs, manager |-> mgr, tried |-> tried,
   raised |-> FALSE]

\* a statement inside the try block of authenticate raises
Raises(fs, mgr, tried) ==
  [result |-> FALSE, files |-> fs, manager |-> mgr, tried |-> tried,
   raised |-> TRUE]

ExceptReraises(r) == r

\* "except Exception as e:" logs the error and returns False
Except(r) == [r EXCEPT !.raised = FALSE]

\* authenticate, in the environment env with the files fs, on the manager mgr,
\* when a token refresh it attempts succeeds (ok) or raises: what it returns,
\* the files and the manager it leaves, and the strategies it attempted
Authenticated(env, fs, mgr, ok) ==
  LET haveKeys == fs.credentials_file
                    \/ (env.client_id /\ env.client_secret /\ env.project_id)
      fs1 == [fs EXCEPT !.credentials_file = haveKeys]
      loaded == IF fs.token_file.present THEN fs.token_file ELSE mgr.credentials
      fromFile == IF fs.token_file.present THEN <<"token_file">> ELSE <<>>
      done(c, tried) ==
        AuthResult(TRUE, fs1, [credentials |-> c, service |-> c], tried)
      renewed(c, tried) ==
        AuthResult(TRUE, [fs1 EXCEPT !.token_file = Saved(Refreshed(c))],
                   [credentials |-> Refreshed(c), service |-> Refreshed(c)], tried)
      failed(c, tried) ==
        AuthResult(FALSE, fs1, [mgr EXCEPT !.credentials = c], tried)
      raises(c, tried) ==
        Except(Raises(fs1, [mgr EXCEPT !.credentials = c], tried))
  IN
  IF ~haveKeys THEN AuthResult(FALSE, fs, mgr, <<>>)
  ELSE IF fs.token_file.src = "corrupt" THEN raises(mgr.credentials, <<>>)
  ELSE IF Valid(loaded) THEN done(loaded, fromFile)
  ELSE IF loaded.present /\ loaded.expired /\ loaded.rt
    THEN IF ok THEN renewed(loaded, fromFile \o <<"refresh">>)
         ELSE raises(loaded, fromFile \o <<"refresh">>)
  ELSE IF env.refresh_token /\ env.client_id /\ env.client_secret
    THEN IF ok THEN renewed(Creds(FALSE, FALSE, TRUE, "env"), fromFile \o <<"env">>)
         ELSE raises(Creds(FALSE, FALSE, TRUE, "env"), fromFile \o <<"env">>)
  ELSE failed(loaded, fromFile)

CalOps == {"list_calendars", "create_event", "list_events", "update_event",
           "delete_event", "search_events", "get_freebusy"}

AuthFailedNever(a) == FALSE

\* "if not await self.authenticate():"
AuthFailed(a) == a # "True"

InitCalendar ==
  /\ ApiStart /\ ToolsUnused /\ AgentUnused /\ MigrationUnused
  /\ environ \in [EnvNames -> BOOLEAN]
  /\ files \in [credentials_file : BOOLEAN, token_file : TokenFiles]
  /\ manager = NewManager
  /\ call = NoCall

\* a manager operation is called
CalBegin(op) ==
  /\ call.pc = "idle"
  /\ call' = [NoCall EXCEPT !.pc = "auth", !.op = op]
  /\ UNCHANGED <<environ, files, manager, apiVars, lcVars, extVars>>

\* await self.authenticate()
Authenticate(ok) ==
  LET a == Authenticated(environ, files, manager, ok) IN
  /\ call.pc = "auth"
  /\ files' = a.files
  /\ manager' = a.manager
  /\ call' = [call EXCEPT !.pc = "authed", !.tried = a.tried,
                          !.auth = IF a.raised THEN "raised"
                                   ELSE IF a.result THEN "True" ELSE "False"]
  /\ UNCHANGED <<environ, apiVars, lcVars, extVars>>

\* raise Exception("Authentication failed"), logged and re-raised
RaiseAuthFailed ==
  /\ call.pc = "authed" /\ AuthFailed(call.auth)
  /\ call' = [call EXCEPT !.pc = "idle", !.outcome = "raised"]
  /\ UNCHANGED <<environ, files, manager, apiVars, lcVars, extVars>>

\* self.service....execute(): the result is returned, or the error the API
\* raises is logged and re-raised
ApiCall(ok) ==
  /\ call.pc = "authed" /\ ~AuthFailed(call.auth)
  /\ call' = [call EXCEPT !.pc = "idle", !.calls = @ + 1,
                          !.outcome = IF ok THEN "returned" ELSE "raised"]
  /\ UNCHANGED <<environ, files, manager, apiVars, lcVars, extVars>>

\* time passes: the access tokens issued so far expire
Expire ==
  LET old(c) == IF c.token THEN [c EXCEPT !.expired = TRUE] ELSE c IN
  /\ call.pc = "idle"
  /\ files' = [files EXCEPT !.token_file = old(@)]
  /\ manager' = [credentials |-> old(manager.credentials),
                 service |-> old(manager.service)]
  /\ <<files', manager'>> # <<files, manager>>
  /\ UNCHANGED <<environ, call, apiVars, lcVars, extVars>>

NextCalendar ==
  \/ \E op \in CalOps : CalBegin(op)
  \/ \E ok \in BOOLEAN : Authenticate(ok)
  \/ RaiseAuthFailed
  \/ \E ok \in BOOLEAN : ApiCall(ok)
  \/ Expire

SpecCalendar == InitCalendar /\ [][NextCalendar]_vars

(* ---------------------------- calendar function tools ------------------ *)
(* The seven function tools of src/google_calendar_tools.py, called by     *)
(* agent sessions that run as separate job processes against one Google    *)
(* calendar.  Every session has its own calendar_manager; authenticate is  *)
(* taken by its result here.  A tool with one calendar request is one      *)
(* step; update_event reads the event in one request and writes it back in *)
(* another, and the calendar may change between the two.                   *)

\* the date-time strings a caller may pass
DateTimes == {"2024-01-15T12:00:00Z", "tomorrow", ""}

\* s.replace('Z', '+00:00')
Replace(s) == IF s = "2024-01-15T12:00:00Z" THEN "2024-01-15T12:00:00+00:00" ELSE s

\* datetime.fromisoformat(s).isoformat(); None stands for ValueError
Fromisoformat(s) ==
  IF s \in {"2024-01-15T12:00:00", "2024-01-15T12:00:00+00:00"} THEN Some(s) ELSE None

\* "if title:", "if start_datetime:": neither None nor the empty string
Provided(v) == v # None /\ v[1] # ""

\* what a caller passes to create_event and to get_freebusy
RangeArgs ==
  {[NoArgs EXCEPT !.title = Some("Call"), !.start_datetime = Some(a),
                  !.end_datetime = Some(b)] :
     a \in DateTimes, b \in {"2024-01-15T12:00:00", "tomorrow"}}

\* what a caller passes to update_event
UpdateArgs ==
  {[NoArgs EXCEPT !.title = Some("Call")],
   [NoArgs EXCEPT !.location = Some("Park")],
   [NoArgs EXCEPT !.start_datetime = Some("2024-01-15T12:00:00Z")],
   [NoArgs EXCEPT !.title = Some("Call"), !.start_datetime = Some("tomorrow")],
   [NoArgs EXCEPT !.title = Some("Call"), !.start_datetime = Some("")],
   [NoArgs EXCEPT !.location = Some("Park"), !.end_datetime = Some("tomorrow")]}

\* a calendar_manager operation: authenticate, then one request to the
\* calendar API; a failed authentication and a failed request both raise
ManagerCall(authOk, apiOk) ==
  [auths |-> 1, calls |-> IF authOk THEN 1 ELSE 0, raised |-> ~(authOk /\ apiOk)]

\* a tool that called nothing
NoManagerCall == [auths |-> 0, calls |-> 0, raised |-> FALSE]

\* the tool call t ends after the manager calls m, with the string result
\* unless they raised
Ended(t, m, result) ==
  [t EXCEPT !.pc = "done", !.event_data = None,
            !.auths = @ + m.auths, !.calls = @ + m.calls,
            !.outcome = IF m.raised THEN "raised" ELSE "returned",
            !.result = IF m.raised THEN "none" ELSE result]

ToolExceptReraises(t) == t

\* "except Exception as e:" of a tool: log, return "Sorry, I couldn't ..."
ToolExcept(t) ==
  IF t.outcome = "raised" THEN [t EXCEPT !.outcome = "returned", !.result = "Sorry"]
  ELSE t

\* a session calls a tool when its previous call has ended
Called(s) == tool[s].pc \in {"idle", "done"}

Begun(name, args) == [NoTool EXCEPT !.name = name, !.args = args]

\* list_calendars, list_events, search_events
ReadTools == {"list_calendars", "list_events", "search_events"}

ReadTool(s, name, authOk, apiOk) ==
  /\ Called(s)
  /\ tool' = [tool EXCEPT ![s] =
       ToolExcept(Ended(Begun(name, NoArgs), ManagerCall(authOk, apiOk), "Listed"))]
  /\ UNCHANGED <<calendar, job, sqlite, pg, mig, stmt, apiVars, lcVars, calVars>>

\* start_dt and end_dt of create_event and get_freebusy, None when either
\* string raises ValueError
Range(args) ==
  LET start_dt == Fromisoformat(Replace(args.start_datetime[1]))
      end_dt == Fromisoformat(Replace(args.end_datetime[1]))
  IN IF start_dt = None \/ end_dt = None THEN None
     ELSE Some([start |-> start_dt[1], end |-> end_dt[1]])

\* create_event
CreateEvent(s, args, authOk, apiOk) ==
  LET t == Begun("create_event", args)
      m == ManagerCall(authOk, apiOk)
      event_data == [summary |-> args.title[1], description |-> "", location |-> "",
                     start |-> Range(args)[1].start, end |-> Range(args)[1].end]
  IN
  /\ Called(s)
  /\ IF Range(args) = None
       THEN /\ tool' = [tool EXCEPT ![s] =
                 ToolExcept(Ended(t, NoManagerCall, "Invalid date format"))]
            /\ UNCHANGED calendar
       ELSE /\ tool' = [tool EXCEPT ![s] =
                 ToolExcept([Ended(t, m, "Event Created Successfully")
                               EXCEPT !.writes = IF m.raised THEN 0 ELSE 1])]
            /\ calendar' = IF m.raised THEN calendar
                           ELSE [calendar EXCEPT !.inserted = @ \cup {event_data}]
  /\ UNCHANGED <<job, sqlite, pg, mig, stmt, apiVars, lcVars, calVars>>

\* get_freebusy
GetFreebusy(s, args, authOk, apiOk) ==
  LET t == Begun("get_freebusy", args) IN
  /\ Called(s)
  /\ tool' = [tool EXCEPT ![s] =
       IF Range(args) = None
         THEN ToolExcept(Ended(t, NoManagerCall, "Invalid date format"))
         ELSE ToolExcept(Ended(t, ManagerCall(authOk, apiOk), "Free/Busy Status"))]
  /\ UNCHANGED <<calendar, job, sqlite, pg, mig, stmt, apiVars, lcVars, calVars>>

\* delete_event: the API refuses to delete an event that is gone
DeleteEvent(s, authOk, apiOk) ==
  LET m == ManagerCall(authOk, apiOk /\ calendar.exists) IN
  /\ Called(s)
  /\ tool' = [tool EXCEPT ![s] =
       ToolExcept([Ended(Begun("delete_event", NoArgs), m, "Event Deleted Successfully")
                     EXCEPT !.writes = IF m.raised THEN 0 ELSE 1])]
  /\ calendar' = IF m.raised THEN calendar ELSE [calendar EXCEPT !.exists = FALSE]
  /\ UNCHANGED <<job, sqlite, pg, mig, stmt, apiVars, lcVars, calVars>>

\* update_event, from "event_data = existing_event.copy()" to the second
\* date: the event to write back, or the message of the date that failed
EventData(existing_event, args) ==
  LET e1 == IF Provided(args.title)
              THEN [existing_event EXCEPT !.summary = args.title[1]]
              ELSE existing_event
      e2 == IF args.description # None
              THEN [e1 EXCEPT !.description = args.description[1]] ELSE e1
      e3 == IF args.location # None
              THEN [e2 EXCEPT !.location = args.location[1]] ELSE e2
      start_dt == IF Provided(args.start_datetime)
                    THEN Fromisoformat(Replace(args.start_datetime[1])) ELSE None
      e4 == IF start_dt # None THEN [e3 EXCEPT !.start = start_dt[1]] ELSE e3
      end_dt == IF Provided(args.end_datetime)
                  THEN Fromisoformat(Replace(args.end_datetime[1])) ELSE None
      e5 == IF end_dt # None THEN [e4 EXCEPT !.end = end_dt[1]] ELSE e4
  IN IF Provided(args.start_datetime) /\ start_dt = None
       THEN [invalid |-> "Invalid start date format", event_data |-> None]
     ELSE IF Provided(args.end_datetime) /\ end_dt = None
       THEN [invalid |-> "Invalid end date format", event_data |-> None]
     ELSE [invalid |-> "", event_data |-> Some(e5)]

\* update_event up to the call of calendar_manager.update_event: authenticate,
\* get the existing event, build event_data
UpdateEventGet(s, args, authOk, apiOk) ==
  LET t == Begun("update_event", args)
      m == ManagerCall(authOk, apiOk /\ calendar.exists)
      d == EventData(calendar.event, args)
  IN
  /\ Called(s)
  /\ tool' = [tool EXCEPT ![s] =
       IF m.raised \/ d.invalid # ""
         THEN ToolExcept(Ended(t, m, d.invalid))
         ELSE [t EXCEPT !.pc = "got", !.event_data = d.event_data,
                        !.auths = m.auths, !.calls = m.calls]]
  /\ UNCHANGED <<calendar, job, sqlite, pg, mig, stmt, apiVars, lcVars, calVars>>

\* calendar_manager.update_event(calendar_id, event_id, event_data) and the
\* tool's return: the whole event is replaced by event_data
UpdateEventPut(s, authOk, apiOk) ==
  LET m == ManagerCall(authOk, apiOk /\ calendar.exists) IN
  /\ tool[s].pc = "got"
  /\ tool' = [tool EXCEPT ![s] =
       ToolExcept([Ended(tool[s], m, "Event Updated Successfully")
                     EXCEPT !.writes = IF m.raised THEN 0 ELSE 1])]
  /\ calendar' = IF m.raised THEN calendar
                 ELSE [calendar EXCEPT !.event = tool[s].event_data[1]]
  /\ UNCHANGED <<job, sqlite, pg, mig, stmt, apiVars, lcVars, calVars>>

InitTools == ApiStart /\ CalendarUnused /\ ToolsUnused /\ AgentUnused /\ MigrationUnused

NextTools ==
  \/ \E name \in ReadTools, authOk, apiOk \in BOOLEAN : ReadTool(1, name, authOk, apiOk)
  \/ \E args \in RangeArgs, authOk, apiOk \in BOOLEAN : CreateEvent(1, args, authOk, apiOk)
  \/ \E args \in RangeArgs, authOk, apiOk \in BOOLEAN : GetFreebusy(1, args, authOk, apiOk)
  \/ \E authOk, apiOk \in BOOLEAN : DeleteEvent(1, authOk, apiOk)
  \/ \E s \in Sessions, args \in UpdateArgs, authOk, apiOk \in BOOLEAN :
       UpdateEventGet(s, args, authOk, apiOk)
  \/ \E s \in Sessions, authOk, apiOk \in BOOLEAN : UpdateEventPut(s, authOk, apiOk)

SpecTools == InitTools /\ [][NextTools]_vars

(* ---------------------------- agent entrypoint ------------------------- *)
(* entrypoint of src/agent.py, for one job, in an environment fixed when   *)
(* the process starts.  Every call that can fail is a step.                *)

\* os.getenv(var) of a variable that may be unset or empty
Getenv(env, var) == IF env[var] = "unset" THEN None ELSE Some(env[var])

MissingVarsUnsetOnly(env) == {var \in RequiredEnvVars : Getenv(env, var) = None}

\* missing_vars: "not os.getenv(var)" holds for None and for ""
MissingVars(env) ==
  {var \in RequiredEnvVars : Getenv(env, var) = None \/ Getenv(env, var) = Some("")}

\* "except Exception as e:" of entrypoint: log the error and re-raise it
Raised(j, e) == [j EXCEPT !.pc = "ended", !.outcome = "raised", !.error = e]

LoggedReraises(j, e, next) == Raised(j, e)

\* the inner "except Exception as e:" clauses: log the error, carry on
Logged(j, e, next) == [j EXCEPT !.pc = next, !.done = Append(@, e)]

\* the statement what succeeded; the entrypoint carries on at next
Did(j, what, next) == [j EXCEPT !.pc = next, !.done = Append(@, what)]

AgentStep(j) ==
  /\ job' = j
  /\ UNCHANGED <<calendar, tool, sqlite, pg, mig, stmt, apiVars, lcVars, calVars>>

\* the worker dispatches the job: entrypoint runs _ensure_database_path()
Entrypoint ==
  /\ job.pc = "idle"
  /\ AgentStep([job EXCEPT !.pc = "validate"])

\* "if missing_vars: raise ValueError(...)"
ValidateEnv ==
  /\ job.pc = "validate"
  /\ AgentStep(IF MissingVars(job.env) # {} THEN Raised(job, "ValueError")
               ELSE [job EXCEPT !.pc = "health"])

\* GET {toolbox_url}/health: status 200, another status, or no connection
HealthCheck(r) ==
  /\ job.pc = "health"
  /\ AgentStep(CASE r = "200" -> Did(job, "health_ok", "mcp")
                 [] r = "503" -> Did(job, "health_warning", "mcp")
                 [] OTHER -> Logged(job, "health_failed", "mcp"))

\* mcp.MCPServerHTTP(toolbox_url)
CreateMCPServer ==
  /\ job.pc = "mcp"
  /\ AgentStep(Did(job, "MCPServerHTTP", "session"))

\* AgentSession(...) and VolunteerAssistant()
CreateSession(ok) ==
  /\ job.pc = "session"
  /\ AgentStep(IF ok THEN Did(job, "AgentSession", "start")
               ELSE Raised(job, "AgentSession"))

\* await session.start(...)
StartSession(ok) ==
  /\ job.pc = "start"
  /\ AgentStep(IF ok THEN Did(job, "session.start", "list_tools")
               ELSE Raised(job, "session.start"))

\* await mcp_toolbox_server.list_tools()
ListTools(ok) ==
  /\ job.pc = "list_tools"
  /\ AgentStep(IF ok THEN Did(job, "list_tools_ok", "reply")
               ELSE Logged(job, "list_tools_failed", "reply"))

\* await session.generate_reply(...)
GenerateReply(ok) ==
  /\ job.pc = "reply"
  /\ AgentStep(IF ok THEN [Did(job, "generate_reply", "ended") EXCEPT !.outcome = "returned"]
               ELSE Raised(job, "generate_reply"))

InitAgent ==
  /\ ApiStart /\ CalendarUnused /\ ToolsUnused /\ MigrationUnused
  /\ job \in {[NoJob EXCEPT !.env = env] :
                env \in [RequiredEnvVars -> {"unset", "", "value"}]}

NextAgent ==
  \/ Entrypoint
  \/ ValidateEnv
  \/ \E r \in {"200", "503", "error"} : HealthCheck(r)
  \/ CreateMCPServer
  \/ \E ok \in BOOLEAN : CreateSession(ok)
  \/ \E ok \in BOOLEAN : StartSession(ok)
  \/ \E ok \in BOOLEAN : ListTools(ok)
  \/ \E ok \in BOOLEAN : GenerateReply(ok)

SpecAgent == InitAgent /\ [][NextAgent]_vars

(* ---------------------------- migration script ------------------------- *)
(* main of src/migrate_to_postgres.py, run once on a volunteers.db that    *)
(* src/create_volunteers_db.py may have written, and the statements the    *)
(* REST handlers of src/api.py then send to the table the script created.  *)
(* Each function main calls is one step; the script's connection is not in *)
(* autocommit mode, so its INSERTs share one transaction until commit().   *)

\* CREATE TABLE volunteers of create_volunteers_db.py
SeedColumns ==
  {"id", "name", "age", "location", "phone", "email", "skills",
   "availability_status", "availability_schedule", "experience_years",
   "languages", "transportation", "background_check", "emergency_contact",
   "notes", "created_at", "updated_at"}

\* CREATE TABLE volunteers of create_postgres_table
PostgresColumns ==
  {"id", "name", "age", "location", "phone", "email", "skills",
   "availability_status", "availability_schedule", "experience_years",
   "languages", "transportation", "background_check", "emergency_contact",
   "notes", "created_at", "updated_at"}

\* len(volunteers_data) of create_sample_data
NSamples == 19

\* rows of a volunteers.db the script may find
MaxRows == 3

\* a row of volunteers.db: PostgreSQL takes it, PostgreSQL rejects it (a
\* value longer than its VARCHAR column, a value its CHECK or type refuses:
\* SQLite enforces neither), or psycopg2 cannot send it (a NUL character)
RowKinds == {"ok", "rejected", "unadaptable"}

RECURSIVE SeqsUpTo(_, _)
SeqsUpTo(S, n) ==
  IF n = 0 THEN {<<>>}
  ELSE LET shorter == SeqsUpTo(S, n - 1) IN
       shorter \cup {Append(q, x) : q \in shorter, x \in S}

\* what volunteers.db may be: missing, a file without a volunteers table,
\* or a file with the table and some rows
SqliteFiles ==
  {NoSqlite, [exists |-> TRUE, table |-> FALSE, rows |-> <<>>]}
    \cup {[exists |-> TRUE, table |-> TRUE, rows |-> rows] :
            rows \in SeqsUpTo(RowKinds, MaxRows)}

\* the loop of migrate_data_from_sqlite over the rows left, in the
\* transaction tx: an INSERT that PostgreSQL rejects aborts the
\* transaction, and every later INSERT fails in it; each failure is caught
\* and printed, the row is not counted
RECURSIVE MigrateRows(_, _, _)
MigrateRows(rows, migrated_count, tx) ==
  IF rows = <<>> THEN [migrated_count |-> migrated_count, tx |-> tx]
  ELSE IF Head(rows) = "unadaptable" \/ tx.aborted
    THEN MigrateRows(Tail(rows), migrated_count, tx)
  ELSE IF Head(rows) = "rejected"
    THEN MigrateRows(Tail(rows), migrated_count, [tx EXCEPT !.aborted = TRUE])
  ELSE MigrateRows(Tail(rows), migrated_count + 1, [tx EXCEPT !.pending = @ + 1])

\* pg_conn.commit(): the commit of an aborted transaction rolls it back
PgCommit(tx) ==
  [tx EXCEPT !.rows = IF tx.aborted THEN @ ELSE @ + tx.pending,
             !.pending = 0, !.aborted = FALSE]

VerifiedAlways(total_count) == TRUE

\* verify_migration: "return total_count > 0"
Verified(total_count) == total_count > 0

\* main returns False: "if pg_conn is None", a failed verification, or the
\* "except Exception" clause; the connection is closed, its transaction lost
ReturnFalse(m) == [m EXCEPT !.pc = "ended", !.result = "False"]

Rollback(tx) == [tx EXCEPT !.pending = 0, !.aborted = FALSE]

MigVars == <<calendar, tool, job, stmt, apiVars, lcVars, calVars>>

\* main, step 1 and 2: get_postgres_connection() and get_sqlite_connection()
MigMain(ok) ==
  /\ mig.pc = "idle"
  /\ mig' = IF ok THEN [mig EXCEPT !.pc = "table"] ELSE ReturnFalse(mig)
  /\ UNCHANGED <<sqlite, pg, MigVars>>

\* step 3: create_postgres_table drops the table, creates it and commits
CreatePostgresTable(ok) ==
  /\ mig.pc = "table"
  /\ IF ok THEN /\ pg' = [NoTable EXCEPT !.columns = PostgresColumns]
                /\ mig' = [mig EXCEPT !.pc = "migrate"]
           ELSE /\ pg' = Rollback(pg)
                /\ mig' = ReturnFalse(mig)
  /\ UNCHANGED <<sqlite, MigVars>>

\* step 4: migrate_data_from_sqlite; "SELECT * FROM volunteers" raises on a
\* file without the table
MigrateDataFromSqlite ==
  LET r == MigrateRows(sqlite.rows, 0, pg) IN
  /\ mig.pc = "migrate"
  /\ IF ~sqlite.exists \/ (sqlite.table /\ sqlite.rows = <<>>)
       THEN /\ mig' = [mig EXCEPT !.pc = "sample", !.migrated_count = 0]
            /\ pg' = pg
     ELSE IF ~sqlite.table
       THEN /\ mig' = ReturnFalse(mig)
            /\ pg' = Rollback(pg)
     ELSE /\ mig' = [mig EXCEPT !.migrated_count = r.migrated_count,
                                !.pc = IF r.migrated_count = 0 THEN "sample"
                                       ELSE "verify"]
          /\ pg' = PgCommit(r.tx)
  /\ UNCHANGED <<sqlite, MigVars>>

\* step 5: "if migrated_count == 0: create_sample_data(pg_conn)"
CreateSampleData(ok) ==
  /\ mig.pc = "sample"
  /\ IF ok THEN /\ pg' = PgCommit([pg EXCEPT !.pending = @ + NSamples])
                /\ mig' = [mig EXCEPT !.pc = "verify", !.sample = TRUE]
           ELSE /\ pg' = Rollback(pg)
                /\ mig' = ReturnFalse(mig)
  /\ UNCHANGED <<sqlite, MigVars>>

\* step 6: verify_migration counts the rows
VerifyMigration(ok) ==
  /\ mig.pc = "verify"
  /\ mig' = IF ok /\ Verified(pg.rows)
              THEN [mig EXCEPT !.pc = "ended", !.result = "True"]
              ELSE ReturnFalse(mig)
  /\ UNCHANGED <<sqlite, pg, MigVars>>

\* the columns a statement of a REST handler names
Statements ==
  {[handler |-> "get_volunteers", columns |-> {}],
   [handler |-> "get_volunteers", columns |-> {"skills", "location", "languages"}],
   [handler |-> "get_volunteers", columns |-> {"available"}],
   [handler |-> "get_volunteer", columns |-> {"id"}],
   [handler |-> "search_by_skill", columns |-> {"skills"}],
   [handler |-> "search_by_location", columns |-> {"location"}],
   [handler |-> "get_available_volunteers", columns |-> {"available"}],
   [handler |-> "create_volunteer", columns |->
      {"name", "age", "location", "phone", "email", "skills", "available",
       "years_experience", "languages", "transportation", "background_check",
       "emergency_contact", "notes"}],
   [handler |-> "update_volunteer", columns |-> {"id", "notes", "updated_at"}],
   [handler |-> "update_volunteer", columns |-> {"id", "years_experience", "updated_at"}],
   [handler |-> "delete_volunteer", columns |-> {"id"}],
   [handler |-> "update_volunteer_availability", columns |->
      {"id", "available", "updated_at"}]}

\* a REST handler sends its statement to the volunteers table: PostgreSQL
\* refuses a statement that names a column the table does not have
Execute(s) ==
  /\ pg.columns # {}
  /\ stmt' = [handler |-> s.handler, columns |-> s.columns,
              outcome |-> IF s.columns \subseteq pg.columns THEN "ok"
                          ELSE "UndefinedColumn"]
  /\ UNCHANGED <<sqlite, pg, mig, calendar, tool, job, apiVars, lcVars, calVars>>

InitMigration ==
  /\ ApiStart /\ CalendarUnused /\ ToolsUnused /\ AgentUnused
  /\ sqlite \in SqliteFiles
  /\ pg \in {NoTable, [NoTable EXCEPT !.columns = PostgresColumns, !.rows = 1]}
  /\ mig = NoMig
  /\ stmt = NoStmt

NextMigration ==
  \/ \E ok \in BOOLEAN : MigMain(ok)
  \/ \E ok \in BOOLEAN : CreatePostgresTable(ok)
  \/ MigrateDataFromSqlite
  \/ \E ok \in BOOLEAN : CreateSampleData(ok)
  \/ \E ok \in BOOLEAN : VerifyMigration(ok)
  \/ \E s \in Statements : Execute(s)

SpecMigration == InitMigration /\ [][NextMigration]_vars

(* ---------------------------- properties ------------------------------- *)

\* a step in which a handler that runs as a single step hands out its response
Responds == resp = NoResp /\ resp' # NoResp

\* a step in which worker p runs the UPDATE of a PUT
PutRuns(p) == pc[p] = "put_update" /\ pc'[p] = "idle"

Columns == BodyFields \cup {"id", "created_at", "updated_at"}

\* C1: after a successful PUT every column the body did not supply keeps its
\* value (updated_at excepted), and no other row changes.
C1_UpdateKeepsUntouched ==
  [][\A p \in Procs :
       (PutRuns(p) /\ resp'.status = 200) =>
         /\ DOMAIN store' = DOMAIN store
         /\ \A j \in DOMAIN store \ {cur[p].id} : store'[j] = store[j]
         /\ cur[p].id \in DOMAIN store =>
              \A f \in Columns \ (Supplied(cur[p].body) \cup {"updated_at"}) :
                store'[cur[p].id][f] = store[cur[p].id][f]]_vars

\* a PUT that changed skills answered with a row whose languages, which the
\* body did not name, are still set, while another row is stored
C1_Witness ==
  /\ resp.req.op = "update_volunteer" /\ resp.status = 200
  /\ resp.volunteer # None
  /\ "skills" \in Supplied(resp.req.body)
  /\ "languages" \notin Supplied(resp.req.body)
  /\ resp.volunteer[1].languages # None
  /\ Cardinality(DOMAIN store) = 2

\* C2: every successful PUT or PATCH of a row leaves its updated_at strictly
\* greater than before.
C2_UpdatedAtIncreases ==
  [][/\ \A p \in Procs :
          (PutRuns(p) /\ cur[p].id \in DOMAIN store) =>
            store'[cur[p].id].updated_at > store[cur[p].id].updated_at
     /\ (Responds /\ resp'.req.op = "update_volunteer_availability"
            /\ resp'.status = 200) =>
          store'[resp'.req.id].updated_at > store[resp'.req.id].updated_at]_vars

\* C3: a GET of an id that was created and not written since returns the
\* record the create returned, and that record carries every supplied value.
C3_CreateReadRoundTrip ==
  (resp.req.op = "get_volunteer" /\ resp.status = 200
     /\ resp.req.id \in DOMAIN created) =>
    LET c == created[resp.req.id] IN
    /\ resp.volunteer = Some(c.row)
    /\ \A f \in DOMAIN c.body.vals :
         c.row[f] = IF f \in NullableFields THEN Some(c.body.vals[f])
                    ELSE c.body.vals[f]
    /\ \A f \in c.body.nulls : c.row[f] = None

\* a GET answered with the unwritten record of a create that set available,
\* languages and phone and sent notes as null
C3_Witness ==
  /\ resp.req.op = "get_volunteer" /\ resp.status = 200
  /\ resp.req.id \in DOMAIN created
  /\ "available" \in DOMAIN created[resp.req.id].body.vals
  /\ resp.volunteer[1].available = FALSE

\* C4: GET by id, PUT and DELETE of an id no row has answer 404 and leave the
\* store as it was.
C4_MissingIdIs404 ==
  [][(Responds /\ pc' = pc
        /\ resp'.req.op \in {"get_volunteer", "update_volunteer", "delete_volunteer"}
        /\ resp'.req.id \notin DOMAIN store) =>
       (resp'.status = 404 /\ store' = store /\ nextId' = nextId)]_vars

\* a PUT with fields to change was answered 404 while a row is stored
C4_Witness ==
  /\ resp.req.op = "update_volunteer" /\ resp.status = 404
  /\ UpdateFields(resp.req.body) # {}
  /\ resp.req.id \notin DOMAIN store
  /\ DOMAIN store # {}

\* C5: once a DELETE of an id answered 200, every GET of that id answers 404.
C5_DeletedStaysGone ==
  (resp.req.op = "get_volunteer" /\ resp.req.id \in deleted) => resp.status = 404

\* a GET of a deleted id was answered 404 after a later create stored a row
C5_Witness ==
  /\ resp.req.op = "get_volunteer" /\ resp.req.id \in deleted
  /\ resp.status = 404
  /\ \E i \in DOMAIN store : i > resp.req.id

\* C6: a PUT that answers 200 returns the row as stored after the update,
\* never an absent record.
C6_PutReturnsStoredRow ==
  (resp.req.op = "update_volunteer" /\ resp.status = 200) =>
    /\ resp.volunteer # None
    /\ resp.req.id \in DOMAIN store
    /\ resp.volunteer = Some(store[resp.req.id])

\* C7: a PUT of an existing id with an empty body answers 400, issues no
\* UPDATE and leaves the store as it was.
C7_EmptyPatchIs400 ==
  [][/\ \A p \in Procs :
          (pc[p] = "idle" /\ pc'[p] = "put_update") =>
            Supplied(cur'[p].body) # {}
     /\ (Responds /\ pc' = pc /\ resp'.req.op = "update_volunteer"
            /\ resp'.req.id \in DOMAIN store
            /\ Supplied(resp'.req.body) = {}) =>
          (resp'.status = 400 /\ store' = store)]_vars

\* a PUT with an empty body on a stored id was answered 400
C7_Witness ==
  /\ resp.req.op = "update_volunteer" /\ resp.status = 400
  /\ Supplied(resp.req.body) = {}
  /\ resp.req.id \in DOMAIN store

\* sub occurs in s as a contiguous run, letter case ignored
Contains(s, sub) ==
  \E i \in 0..(Len(s) - Len(sub)) :
    \A k \in 1..Len(sub) : Lower(s[i + k]) = Lower(sub[k])

\* row r satisfies every filter of q that carries a non-empty value
Satisfies(r, q) ==
  /\ Provided(q.skill) => Contains(r.skills, q.skill[1])
  /\ Provided(q.location) => Contains(r.location, q.location[1])
  /\ q.available # None => r.available = q.available[1]
  /\ Provided(q.language) =>
        (r.languages # None /\ Contains(r.languages[1], q.language[1]))

\* C8: GET /api/volunteers returns only rows that contain every supplied text
\* filter as a case-insensitive substring, and all of them when they fit the
\* limit.
C8_FilterIsContainment ==
  (resp.req.op = "get_volunteers" /\ resp.status = 200) =>
    LET q == resp.req.query
        all == {r \in SelectAll(store) : Satisfies(r, q)}
    IN
    /\ \A r \in resp.volunteers : Satisfies(r, q)
    /\ Cardinality(all) <= EffLimit(q) => resp.volunteers = all

\* C9: with available supplied, true or false, every returned row has exactly
\* that value.
C9_AvailableFilterExact ==
  (resp.req.op = "get_volunteers" /\ resp.status = 200
     /\ resp.req.query.available # None) =>
    \A r \in resp.volunteers : r.available = resp.req.query.available[1]

\* available=false returned a row while a row with available true is stored
C9_Witness ==
  /\ resp.req.op = "get_volunteers" /\ resp.status = 200
  /\ resp.req.query.available = Some(FALSE)
  /\ resp.volunteers # {}
  /\ \E i \in DOMAIN store : store[i].available

\* C10: the response of GET /api/volunteers holds at most limit rows (100
\* when limit is omitted) and its count is the number of rows it holds.
C10_LimitBoundsCount ==
  (resp.req.op = "get_volunteers" /\ resp.status = 200) =>
    /\ Cardinality(resp.volunteers) <=
         (IF resp.req.query.limit = None THEN 100 ELSE resp.req.query.limit[1])
    /\ resp.count = Cardinality(resp.volunteers)

\* limit=1 returned one row while two rows match
C10_Witness ==
  /\ resp.req.op = "get_volunteers" /\ resp.status = 200
  /\ resp.req.query.limit = Some(1)
  /\ resp.req.query.available = None
  /\ Cardinality(resp.volunteers) = 1
  /\ Cardinality(DOMAIN store) = 2

\* C16: PATCH availability on a stored id sets available to the supplied value,
\* touches nothing else but updated_at, changes no other row and returns the
\* stored row; on an absent id it answers 404 and the store stays as it was.
C16_PatchChangesAvailabilityOnly ==
  [][(Responds /\ resp'.req.op = "update_volunteer_availability") =>
       LET id == resp'.req.id IN
       IF id \in DOMAIN store
         THEN /\ resp'.status = 200
              /\ DOMAIN store' = DOMAIN store
              /\ \A j \in DOMAIN store \ {id} : store'[j] = store[j]
              /\ store'[id].available = resp'.req.available
              /\ \A f \in Columns \ {"available", "updated_at"} :
                   store'[id][f] = store[id][f]
              /\ resp'.volunteer = Some(store'[id])
         ELSE resp'.status = 404 /\ store' = store]_vars

\* a PATCH set available to true on a row that had it false and carries
\* languages, while another row is stored
C16_Witness ==
  /\ resp.req.op = "update_volunteer_availability" /\ resp.status = 200
  /\ resp.req.available = TRUE
  /\ resp.volunteer[1].languages # None
  /\ resp.volunteer[1].updated_at > resp.volunteer[1].created_at
  /\ Cardinality(DOMAIN store) = 2

\* C17: no request changes the id or the created_at of a stored row, and a
\* new row is stored under the id it carries.
C17_IdAndCreatedAtFixed ==
  [][/\ \A i \in DOMAIN store \cap DOMAIN store' :
          /\ store'[i].id = store[i].id
          /\ store'[i].created_at = store[i].created_at
     /\ \A i \in DOMAIN store' \ DOMAIN store : store'[i].id = i]_vars

\* a row that a PUT changed after its creation is stored beside a newer row
C17_Witness ==
  /\ resp.req.op = "update_volunteer" /\ resp.status = 200
  /\ resp.volunteer # None
  /\ resp.volunteer[1].updated_at > resp.volunteer[1].created_at
  /\ \E i \in DOMAIN store : i > resp.req.id

MalformedBody(op, b) ==
  \/ op = "create_volunteer"
       /\ \E f \in {"name", "age", "location", "skills"} : f \notin DOMAIN b.vals
  \/ \E f \in {"name", "location"} \cap DOMAIN b.vals : Len(b.vals[f]) = 0
  \/ "age" \in DOMAIN b.vals /\ (b.vals.age < 18 \/ b.vals.age > 100)
  \/ "years_experience" \in DOMAIN b.vals /\ b.vals.years_experience < 0
  \/ "transportation" \in DOMAIN b.vals
       /\ b.vals.transportation \notin {"car", "public_transport", "walking", "bicycle"}

\* C12: a create or update request with a malformed body is answered with a
\* validation error in the step in which it arrives, its handler never runs,
\* and the store stays as it was.
C12_MalformedIsRejected ==
  [][/\ (cur'[W].op \in {"create_volunteer", "update_volunteer"}) =>
          ~MalformedBody(cur'[W].op, cur'[W].body)
     /\ (Responds /\ resp'.req.op \in {"create_volunteer", "update_volunteer"}
            /\ resp'.req.http.body # None
            /\ MalformedBody(resp'.req.op, resp'.req.http.body[1])) =>
          /\ resp'.status = 422 /\ detail' = "validation"
          /\ log' = {"invalid"}
          /\ pc[W] = "idle"
          /\ store' = store /\ nextId' = nextId]_vars

\* a PUT that names a stored id with an age above 100 was answered with a
\* validation error
C12_Witness ==
  /\ resp.req.op = "update_volunteer" /\ resp.status = 422
  /\ resp.req.http.body # None
  /\ "age" \in DOMAIN resp.req.http.body[1].vals
  /\ ParseInt(resp.req.http.path[3]) \in DOMAIN store
  /\ log = {"invalid"}

\* health_check and the handlers under /api/volunteers
VolunteerHandlers ==
  {"get_volunteers", "get_volunteer", "search_by_skill", "search_by_location",
   "get_available_volunteers", "create_volunteer", "update_volunteer",
   "delete_volunteer", "update_volunteer_availability"}

\* a request to a volunteer handler was answered with an error status
ErrorResponse == resp.req.op \in VolunteerHandlers /\ resp.status >= 400

\* C13 as claimed: an error response has status 404 when the id does not
\* exist, 400 when the request failed input validation, 500 otherwise.
C13_ErrorStatusPolicy ==
  ErrorResponse =>
    resp.status = (IF "not_found" \in log THEN 404
                   ELSE IF log \cap {"invalid", "no_fields"} # {} THEN 400
                   ELSE 500)

\* C13 amended: an error response has status 422 when the parameters failed
\* validation before the handler ran, 404 when the id does not exist, 400 when
\* a PUT names no field to update, and 500 for a failed connection, statement
\* or commit; a 404 or 400 raised in a handler is never answered as 500.
C13_ErrorStatusAmended ==
  ErrorResponse =>
    /\ resp.status = (IF "invalid" \in log THEN 422
                      ELSE IF "not_found" \in log THEN 404
                      ELSE IF "no_fields" \in log THEN 400
                      ELSE 500)
    /\ resp.status = 422 => "connected" \notin log
    /\ resp.status = 404 => resp.req.id \notin DOMAIN store
    /\ resp.status = 400 =>
         (resp.req.op = "update_volunteer" /\ UpdateFields(resp.req.body) = {})
    /\ resp.status = 500 =>
         log \cap {"connect_failed", "statement_failed", "commit_failed"} # {}

\* a create with an age below 18 was answered 422 while a row is stored
C13_Witness ==
  /\ resp.req.op = "create_volunteer" /\ resp.status = 422
  /\ resp.req.http.body # None
  /\ "age" \in DOMAIN resp.req.http.body[1].vals
  /\ resp.req.http.body[1].vals.age < 18
  /\ DOMAIN store # {}

\* C14: a handler that opened a connection has closed it by the time its
\* response is produced, whichever way the request ended.
C14_ConnectionReleased ==
  (resp # NoResp /\ "connected" \in log) => "closed" \in log

\* C15: health_check always answers 200; it reports healthy exactly when the
\* connection was established and the probe statement ran, and unhealthy
\* otherwise.
C15_HealthNeverFails ==
  resp.req.op = "health_check" =>
    /\ resp.status = 200
    /\ detail \in {"healthy", "unhealthy"}
    /\ detail = "healthy" <=> {"connected", "executed"} \subseteq log
    /\ detail = "unhealthy" <=> log \cap {"connect_failed", "statement_failed"} # {}

\* health_check reported unhealthy after the connection was established and
\* the probe statement failed
C15_Witness ==
  /\ resp.req.op = "health_check" /\ resp.status = 200
  /\ detail = "unhealthy"
  /\ "connected" \in log /\ "statement_failed" \in log

\* C18: a GET of /api/volunteers/available is served by
\* get_available_volunteers and, when its statement runs, answers 200 with
\* stored rows whose available is true, as many as the limit allows.
C18_AvailableRouteServed ==
  (/\ resp # NoResp
   /\ resp.req.http.method = "GET"
   /\ resp.req.http.path = <<"api", "volunteers", "available">>) =>
    /\ resp.req.op = "get_available_volunteers"
    /\ log \cap {"connect_failed", "statement_failed"} = {} =>
         LET avail == {r \in SelectAll(store) : r.available}
             limit == IF resp.req.http.query.limit = None THEN 50
                      ELSE resp.req.http.query.limit[1]
         IN /\ resp.status = 200
            /\ resp.volunteers \subseteq avail
            /\ Cardinality(resp.volunteers) = Min(Cardinality(avail), limit)

\* a step in which authenticate runs
Authenticates == call.pc = "auth" /\ call'.pc = "authed"

\* "tried" names strategies in the order of the chain, each at most once
InChainOrder(tried) ==
  \E S \in SUBSET {1, 2, 3} :
    tried = [i \in 1..Cardinality(S) |->
               LET k == CHOOSE k \in S : Cardinality({j \in S : j < k}) = i - 1
               IN <<"token_file", "refresh", "env">>[k]]

\* C19 as claimed: authenticate tries, in this order, the valid credentials of
\* the token file, the refresh of expired credentials that carry a refresh
\* token, and the credentials built from GOOGLE_REFRESH_TOKEN with
\* GOOGLE_CLIENT_ID and GOOGLE_CLIENT_SECRET; the first that succeeds is used
\* and none after it is attempted; it returns False only when every strategy
\* that applies was attempted.
C19_FallbackChain ==
  [][Authenticates =>
       LET file == files.token_file
           fileValid == file.present /\ file.token /\ ~file.expired
           fileRefreshable == file.present /\ file.token /\ file.expired /\ file.rt
           envConfigured == /\ environ.refresh_token
                            /\ environ.client_id /\ environ.client_secret
       IN /\ InChainOrder(call'.tried)
          /\ fileValid => (call'.auth = "True" /\ call'.tried = <<"token_file">>)
          /\ call'.auth = "False" =>
               /\ fileRefreshable => "refresh" \in {call'.tried[i] : i \in DOMAIN call'.tried}
               /\ envConfigured => "env" \in {call'.tried[i] : i \in DOMAIN call'.tried}]_vars

\* C20: an operation issues a calendar API call only after its authenticate
\* returned True; when authenticate returned False the operation raises and
\* has issued no API call.
C20_AuthenticateBeforeApi ==
  /\ call.op \in CalOps \cup {"none"}
  /\ call.calls > 0 => (call.auth = "True" /\ call.pc = "idle")
  /\ call.pc \in {"auth", "authed"} => call.calls = 0
  /\ call.auth = "none" => (call.calls = 0 /\ call.outcome = "none")
  /\ (call.auth = "False" /\ call.pc = "idle") =>
       (call.outcome = "raised" /\ call.calls = 0)
  /\ call.auth = "True" => manager.service.present

\* create_event raised without an API call after the refresh of the
\* environment's refresh token failed
C20_Witness ==
  /\ call.op = "create_event" /\ call.pc = "idle"
  /\ call.auth = "False" /\ call.outcome = "raised" /\ call.calls = 0
  /\ call.tried = <<"env">>

\* C21: authenticate never raises - a missing credentials file with missing
\* environment variables, a missing refresh token, a failing refresh and an
\* unreadable token file all make it return False; and when it returns True
\* the service is set and built from the credentials this call resolved,
\* which are valid.
C21_AuthenticateNeverRaises ==
  /\ call.auth \in {"none", "True", "False"}
  /\ (call.pc = "authed" /\ call.auth = "True") =>
       /\ manager.service.present
       /\ manager.service = manager.credentials
       /\ Valid(manager.credentials)
  /\ (call.pc = "authed" /\ call.auth = "False") => ~Valid(manager.credentials)

\* authenticate returned False on an unreadable token file although the
\* credentials file exists and the environment's refresh token is configured
C21_Witness ==
  /\ call.pc = "authed" /\ call.auth = "False"
  /\ files.credentials_file /\ files.token_file.src = "corrupt"
  /\ environ.refresh_token /\ environ.client_id /\ environ.client_secret

\* a step in which worker p runs the DELETE of a delete_volunteer
DeleteRuns(p) == pc[p] = "delete_exec" /\ pc'[p] = "idle"

\* C27: a DELETE request answers 200 with the deleted record only when its
\* DELETE statement removed the row; a request whose statement removes no
\* row, because a concurrent DELETE of the same id committed first, answers
\* 404.
C27_OneDeleteSucceeds ==
  [][\A p \in Procs :
       DeleteRuns(p) =>
         IF cur[p].id \in DOMAIN store
           THEN resp'.status = 200 /\ resp'.volunteer = found[p]
           ELSE resp'.status = 404]_vars

\* C28: a PUT leaves every column its body names with null as it was, so no
\* stored value becomes null; a PUT of a stored id whose supplied fields are
\* all null answers 400 and leaves the store as it was.
C28_NullIsAbsent ==
  [][/\ \A p \in Procs :
          (PutRuns(p) /\ cur[p].id \in DOMAIN store) =>
            /\ \A f \in cur[p].body.nulls :
                 store'[cur[p].id][f] = store[cur[p].id][f]
            /\ \A f \in NullableFields :
                 store[cur[p].id][f] # None => store'[cur[p].id][f] # None
            /\ DOMAIN cur[p].body.vals # {}
     /\ (Responds /\ pc' = pc /\ resp'.req.op = "update_volunteer"
            /\ resp'.req.id \in DOMAIN store
            /\ DOMAIN resp'.req.body.vals = {}) =>
          (resp'.status = 400 /\ store' = store)]_vars

\* a PUT that sent phone as null was answered with the row still carrying
\* its phone
C28_Witness ==
  /\ resp.req.op = "update_volunteer" /\ resp.status = 200
  /\ "phone" \in resp.req.body.nulls
  /\ resp.volunteer # None
  /\ resp.volunteer[1].phone # None
  /\ resp.req.id \in DOMAIN store /\ store[resp.req.id].phone # None

\* C29: the UPDATE of a PUT sets each field its body supplies to the supplied
\* value and leaves every other column but updated_at as the last commit left
\* it, also when another PUT on the same row with disjoint fields has checked
\* and not yet written, or has committed since this PUT's check: neither of
\* two such PUTs reverts what the other wrote.
C29_DisjointPutsBothApply ==
  [][\A p \in Procs :
       (PutRuns(p) /\ cur[p].id \in DOMAIN store) =>
         LET id == cur[p].id
             mine == UpdateFields(cur[p].body)
         IN /\ resp'.status = 200
            /\ \A f \in mine :
                 store'[id][f] = (IF f \in NullableFields
                                    THEN Some(cur[p].body.vals[f])
                                    ELSE cur[p].body.vals[f])
            /\ \A q \in Procs \ {p} :
                 (pc[q] = "put_update" /\ cur[q].id = id
                    /\ UpdateFields(cur[q].body) \cap mine = {}) =>
                   \A f \in UpdateFields(cur[q].body) :
                     store'[id][f] = store[id][f]
            /\ \A f \in Columns \ (mine \cup {"updated_at"}) :
                 store'[id][f] = store[id][f]]_vars

\* two PUTs on one row overlapped, one setting skills and one setting age and
\* languages: the second to write was answered, and the row holds the values
\* of both
C29_Witness ==
  /\ resp.req.op = "update_volunteer" /\ resp.status = 200
  /\ resp.volunteer # None
  /\ resp.volunteer[1].skills = <<"b">>
  /\ resp.volunteer[1].age = 31
  /\ resp.volunteer[1].languages = Some(<<"b">>)
  /\ resp.volunteer[1].updated_at = 2 /\ clock = 3

\* a date-time argument that was passed and is not valid ISO format
InvalidDate(v) == v # None /\ Fromisoformat(Replace(v[1])) = None

HasInvalidDate(args) ==
  InvalidDate(args.start_datetime) \/ InvalidDate(args.end_datetime)

\* C22: a tool call with a start or end date-time string that is not valid
\* ISO format writes nothing to the calendar: create_event and get_freebusy
\* return the invalid-date message without authenticating or calling the
\* API, and update_event ends with an error message without an update.
C22_InvalidDateWritesNothing ==
  \A s \in Sessions :
    (tool[s].pc = "done" /\ HasInvalidDate(tool[s].args)) =>
      /\ tool[s].writes = 0
      /\ tool[s].name \in {"create_event", "get_freebusy"} =>
           /\ tool[s].result = "Invalid date format"
           /\ tool[s].auths = 0 /\ tool[s].calls = 0
      /\ tool[s].name = "update_event" =>
           tool[s].result \in {"Invalid start date format",
                               "Invalid end date format", "Sorry"}

\* the field of the event that an argument of update_event replaces
ArgField == [title |-> "summary", description |-> "description",
             location |-> "location", start_datetime |-> "start",
             end_datetime |-> "end"]

\* a step in which the update_event call of session s writes the event
UpdateWritten(s) ==
  tool[s].pc = "got" /\ tool'[s].result = "Event Updated Successfully"

\* C23: when update_event writes the event, every field whose argument was
\* omitted keeps the value the calendar held just before the write,
\* whatever another update_event call did in between.
C23_OmittedFieldsKept ==
  [][\A s \in Sessions :
       UpdateWritten(s) =>
         \A a \in DOMAIN ArgField :
           tool[s].args[a] = None =>
             calendar'.event[ArgField[a]] = calendar.event[ArgField[a]]]_vars

ToolMessages ==
  {"Listed", "Invalid date format", "Event Created Successfully",
   "Free/Busy Status", "Event Deleted Successfully",
   "Invalid start date format", "Invalid end date format",
   "Event Updated Successfully", "Sorry"}

\* C24: every call of a calendar function tool ends by returning a string,
\* never by raising: a failed authentication and a failed calendar request
\* come back as the tool's error message.
C24_ToolsReturnStrings ==
  \A s \in Sessions :
    /\ tool[s].outcome # "raised"
    /\ tool[s].pc = "done" =>
         /\ tool[s].outcome = "returned" /\ tool[s].result \in ToolMessages
         /\ tool[s].auths > tool[s].calls => tool[s].result = "Sorry"

\* one call ended after a failed authentication, another after a failed
\* request of its second calendar call
C24_Witness ==
  /\ tool[1].pc = "done" /\ tool[1].name = "delete_event"
  /\ tool[1].auths = 1 /\ tool[1].calls = 0 /\ tool[1].result = "Sorry"
  /\ tool[2].pc = "done" /\ tool[2].name = "update_event"
  /\ tool[2].auths = 2 /\ tool[2].calls = 2 /\ tool[2].result = "Sorry"

\* what the entrypoint has created or started so far
Started(j) ==
  {j.done[i] : i \in DOMAIN j.done} \cap
    {"MCPServerHTTP", "AgentSession", "session.start", "generate_reply"}

\* C25: with a required environment variable unset or empty, the entrypoint
\* raises before it creates the MCP server instance or the AgentSession,
\* starts the session or generates a reply; and no error it raises comes
\* from the health check or from the tool listing.
C25_EnvCheckedBeforeStartup ==
  /\ (\E var \in RequiredEnvVars : job.env[var] \in {"unset", ""}) =>
       /\ Started(job) = {}
       /\ job.pc \in {"idle", "validate", "ended"}
       /\ job.pc = "ended" => job.outcome = "raised" /\ job.error = "ValueError"
  /\ job.outcome = "raised" =>
       job.error \in {"ValueError", "AgentSession", "session.start", "generate_reply"}
  /\ (\A var \in RequiredEnvVars : job.env[var] = "value") /\ job.pc = "ended" =>
       job.error # "ValueError"

\* the entrypoint raised for an empty variable, having created nothing
C25_Witness ==
  /\ job.pc = "ended" /\ job.outcome = "raised" /\ job.error = "ValueError"
  /\ job.done = <<>>
  /\ job.env["DEEPGRAM_API_KEY"] = ""
  /\ \A var \in RequiredEnvVars \ {"DEEPGRAM_API_KEY"} : job.env[var] = "value"

\* startup completed although the health check and the tool listing failed,
\* in a run whose environment has every required variable
C25_WitnessDegraded ==
  /\ job.pc = "ended" /\ job.outcome = "returned"
  /\ job.done = <<"health_failed", "MCPServerHTTP", "AgentSession", "session.start",
                  "list_tools_failed", "generate_reply">>

\* C26: main creates the sample data exactly when migrate_data_from_sqlite
\* reported no migrated row (which it does without a SQLite database and
\* for an empty table), and when main returns True the table holds at least
\* one row, as many as were reported migrated or as there are sample records.
C26_SampleDataWhenNothingMigrated ==
  /\ mig.pc = "verify" => (mig.sample <=> mig.migrated_count = 0)
  /\ mig.sample => mig.migrated_count = 0
  /\ mig.pc \in {"sample", "verify"} /\ (~sqlite.exists \/ sqlite.rows = <<>>) =>
       mig.migrated_count = 0
  /\ mig.result = "True" =>
       /\ pg.rows >= 1
       /\ pg.rows = IF mig.sample THEN NSamples ELSE mig.migrated_count

\* main returned True after a migration in which one row was left out
C26_Witness ==
  /\ mig.result = "True" /\ ~mig.sample
  /\ sqlite.rows = <<"ok", "unadaptable", "ok">>
  /\ mig.migrated_count = 2 /\ pg.rows = 2

\* main returned True with sample data, after every INSERT of the migration
\* failed in the aborted transaction
C26_WitnessSample ==
  /\ mig.result = "True" /\ mig.sample /\ pg.rows = NSamples
  /\ sqlite.rows = <<"rejected", "ok">>

\* C30: every column a REST handler names in a filter, an INSERT or an
\* UPDATE exists in the volunteers table the seeding and migration scripts
\* create, so no handler statement is refused for an unknown column.
C30_HandlerColumnsExist ==
  stmt.handler # "none" =>
    /\ stmt.outcome = "ok"
    /\ stmt.columns \subseteq SeedColumns
====
